---- MODULE Spec2Model ----
(***************************************************************************)
(* hotnote: content-based comment anchoring.                               *)
(*                                                                         *)
(* Text is a sequence of one-character strings.  Offsets are JavaScript    *)
(* offsets (0-based, end-exclusive); the sequence index of offset i is     *)
(* i + 1.                                                                  *)
(***************************************************************************)
EXTENDS Integers, Sequences, FiniteSets

VARIABLES doc, anchor, sel, op, options, position, validation,
          comments, clock, results, passes,
          appState, pickerOpen, beforeNavigation, beforePicker, call,
          banner, versionBannerDismissed, hasSeenWelcome, checks,
          sessionFile, handlers

\* The comment at hand and its resolution; the comment store and the
\* validation passes over it; the file navigation; the version banner and
\* its checks; the session file and the handlers saving to it.
anchorVars == <<anchor, sel, position, validation>>
storeVars == <<comments, clock, results, passes>>
navVars == <<appState, pickerOpen, beforeNavigation, beforePicker, call>>
versionVars == <<banner, versionBannerDismissed, hasSeenWelcome, checks>>
saveVars == <<sessionFile, handlers>>

vars == <<doc, anchor, sel, op, options, position, validation,
          comments, clock, results, passes,
          appState, pickerOpen, beforeNavigation, beforePicker, call,
          banner, versionBannerDismissed, hasSeenWelcome, checks,
          sessionFile, handlers>>

(***************************************************************************)
(* Bounds of the enumerated inputs.                                        *)
(***************************************************************************)
MaxDocLen == 5
MaxExactLen == 2
MaxContextLen == 1
MaxSelectionLen == 7

(***************************************************************************)
(* Strings.                                                                *)
(***************************************************************************)
Min(a, b) == IF a <= b THEN a ELSE b
Max(a, b) == IF a >= b THEN a ELSE b

\* String.prototype.substring: both indices are clamped to [0, length] and
\* swapped when start > end.
Substring(s, start, end) ==
    LET a == Max(0, Min(start, Len(s)))
        b == Max(0, Min(end, Len(s)))
    IN  SubSeq(s, Min(a, b) + 1, Max(a, b))

\* s occurs in text at offset i.
OccursAt(text, s, i) ==
    /\ i >= 0
    /\ i + Len(s) <= Len(text)
    /\ \A k \in 1..Len(s) : text[i + k] = s[k]

\* String.prototype.indexOf / lastIndexOf: -1 when s does not occur.
IndexOf(text, s) ==
    LET hits == {i \in 0..Len(text) : OccursAt(text, s, i)}
    IN  IF hits = {} THEN -1 ELSE CHOOSE i \in hits : \A j \in hits : i <= j

LastIndexOf(text, s) ==
    LET hits == {i \in 0..Len(text) : OccursAt(text, s, i)}
    IN  IF hits = {} THEN -1 ELSE CHOOSE i \in hits : \A j \in hits : i >= j

(***************************************************************************)
(* AnchorBuilder.                                                          *)
(***************************************************************************)
ContextLength == 32

CreateAnchorShortPrefix(d, from, to) ==
    [prefix |-> Substring(d, Max(0, from - (ContextLength - 1)), from),
     exact  |-> Substring(d, from, to),
     suffix |-> Substring(d, to, Min(Len(d), to + ContextLength))]

CreateAnchor(d, from, to) ==
    [prefix |-> Substring(d, Max(0, from - ContextLength), from),
     exact  |-> Substring(d, from, to),
     suffix |-> Substring(d, to, Min(Len(d), to + ContextLength))]

(***************************************************************************)
(* Regular expressions, as far as findAnchorPosition uses them: the        *)
(* pattern source is compiled to a sequence of tokens, each a literal      *)
(* character, the wildcard '.', or a group parenthesis (zero width).       *)
(***************************************************************************)
RegexSpecials == {".", "*", "+", "?", "^", "$", "{", "}", "(", ")", "|", "[", "]", "\\"}
LineTerminators == {"\n", "\r"}

RECURSIVE EscapeRegex(_)
EscapeRegex(s) ==
    IF s = <<>> THEN <<>>
    ELSE (IF Head(s) \in RegexSpecials THEN <<"\\", Head(s)>> ELSE <<Head(s)>>)
         \o EscapeRegex(Tail(s))

RECURSIVE RegExp(_)
RegExp(source) ==
    IF source = <<>> THEN <<>>
    ELSE IF Head(source) = "\\" /\ Len(source) >= 2
         THEN <<[t |-> "lit", c |-> source[2]]>> \o RegExp(Tail(Tail(source)))
    ELSE IF Head(source) = "."
         THEN <<[t |-> "any", c |-> "."]>> \o RegExp(Tail(source))
    ELSE IF Head(source) \in {"(", ")"}
         THEN <<[t |-> "group", c |-> Head(source)]>> \o RegExp(Tail(source))
    ELSE <<[t |-> "lit", c |-> Head(source)]>> \o RegExp(Tail(source))

TokenWidth(tok) == IF tok.t = "group" THEN 0 ELSE 1

RECURSIVE PatternWidth(_)
PatternWidth(regex) ==
    IF regex = <<>> THEN 0 ELSE TokenWidth(Head(regex)) + PatternWidth(Tail(regex))

RECURSIVE MatchesAt(_, _, _)
MatchesAt(text, i, regex) ==
    IF regex = <<>> THEN TRUE
    ELSE LET tok == Head(regex)
         IN  IF tok.t = "group" THEN MatchesAt(text, i, Tail(regex))
             ELSE /\ i < Len(text)
                  /\ IF tok.t = "any" THEN text[i + 1] \notin LineTerminators
                                      ELSE text[i + 1] = tok.c
                  /\ MatchesAt(text, i + 1, Tail(regex))

\* RegExp.prototype.exec with the g flag: the leftmost match at or after
\* lastIndex, or -1 (null).
RECURSIVE Exec(_, _, _)
Exec(regex, text, lastIndex) ==
    IF lastIndex > Len(text) THEN -1
    ELSE IF MatchesAt(text, lastIndex, regex) THEN lastIndex
    ELSE Exec(regex, text, lastIndex + 1)

(***************************************************************************)
(* AnchorResolver.  A position is [kind, from, to]: kind "pos" for a       *)
(* {from, to} object, "null" for null (from = to = -1), and "noreturn"     *)
(* for a call that never returns a value.                                  *)
(***************************************************************************)
NullPosition == [kind |-> "null", from |-> -1, to |-> -1]
NoReturn == [kind |-> "noreturn", from |-> -1, to |-> -1]
Position(m) == [kind |-> "pos", from |-> m.from, to |-> m.to]

\* The while loop around exec ends when exec returns null.  exec sets
\* lastIndex to the end of its match, so a match of width 0 is found again
\* at the same lastIndex on every later iteration.
LoopTerminates(regex, text) ==
    ~(PatternWidth(regex) = 0 /\ Exec(regex, text, 0) # -1)

\* As the loop of findAnchorPosition, the end of a match taken as its last
\* character.
RECURSIVE FindMatchesEndInclusive(_, _, _, _)
FindMatchesEndInclusive(regex, text, exactLen, lastIndex) ==
    LET index == Exec(regex, text, lastIndex)
    IN  IF index = -1 THEN <<>>
        ELSE <<[from |-> index, to |-> index + exactLen - 1]>>
             \o FindMatchesEndInclusive(regex, text, exactLen, index + PatternWidth(regex))

RECURSIVE FindMatchesOverlapping(_, _, _, _)
FindMatchesOverlapping(regex, text, exactLen, lastIndex) ==
    LET index == Exec(regex, text, lastIndex)
    IN  IF index = -1 THEN <<>>
        ELSE <<[from |-> index, to |-> index + exactLen]>>
             \o FindMatchesOverlapping(regex, text, exactLen, index + 1)

RECURSIVE FindMatches(_, _, _, _)
FindMatches(regex, text, exactLen, lastIndex) ==
    LET index == Exec(regex, text, lastIndex)
    IN  IF index = -1 THEN <<>>
        ELSE <<[from |-> index, to |-> index + exactLen]>>
             \o FindMatches(regex, text, exactLen, index + PatternWidth(regex))

(***************************************************************************)
(* Context scoring.  Scores are kept in half points, so that the 0.5 per   *)
(* prefix character stays an integer: every score below is twice the       *)
(* number of points.                                                       *)
(***************************************************************************)
PrefixExactPoints == 50
SuffixExactPointsAsPrefix == PrefixExactPoints
SuffixExactPoints == 100

\* The number of characters a and b share from their start, and from
\* their end, up to the first mismatch.
RECURSIVE LeadingFrom(_, _, _)
LeadingFrom(a, b, k) ==
    IF k < Len(a) /\ k < Len(b) /\ a[k + 1] = b[k + 1] THEN LeadingFrom(a, b, k + 1) ELSE k

LeadingMatches(a, b) == LeadingFrom(a, b, 0)

RECURSIVE TrailingFrom(_, _, _)
TrailingFrom(a, b, k) ==
    IF k < Len(a) /\ k < Len(b) /\ a[Len(a) - k] = b[Len(b) - k]
    THEN TrailingFrom(a, b, k + 1) ELSE k

TrailingMatches(a, b) == TrailingFrom(a, b, 0)

SuffixScore(text, m, suffix) ==
    LET actualSuffix == Substring(text, m.to, m.to + Len(suffix))
    IN  IF actualSuffix = suffix THEN 2 * SuffixExactPoints
        ELSE 2 * LeadingMatches(actualSuffix, suffix)

PrefixScore(text, m, prefix) ==
    LET actualPrefix == Substring(text, m.from - Len(prefix), m.from)
    IN  IF actualPrefix = prefix THEN 2 * PrefixExactPoints
        ELSE TrailingMatches(actualPrefix, prefix)

TotalScore(text, m, a) == SuffixScore(text, m, a.suffix) + PrefixScore(text, m, a.prefix)

\* scoredMatches[0] after the sort by descending score, which keeps the
\* candidates of equal score in their order of occurrence: the first
\* candidate of the highest score.  best is the index of the best candidate
\* among matches[1..i-1] and bestScore its score.
RECURSIVE BestFrom(_, _, _, _, _, _)
BestFrom(text, matches, a, i, best, bestScore) ==
    IF i > Len(matches) THEN matches[best]
    ELSE LET score == TotalScore(text, matches[i], a)
         IN  IF score > bestScore
             THEN BestFrom(text, matches, a, i + 1, i, score)
             ELSE BestFrom(text, matches, a, i + 1, best, bestScore)

BestMatch(text, matches, a) ==
    BestFrom(text, matches, a, 2, 1, TotalScore(text, matches[1], a))

\* The matches array after the loop (when the loop ends).
Candidates(d, a) == FindMatches(RegExp(EscapeRegex(a.exact)), d, Len(a.exact), 0)

\* As findAnchorPosition, returning matches[0] whatever the scores.
FindAnchorPositionFirstMatch(d, a) ==
    IF Len(d) = 0 THEN NullPosition
    ELSE IF ~LoopTerminates(RegExp(EscapeRegex(a.exact)), d) THEN NoReturn
    ELSE IF Len(Candidates(d, a)) = 0 THEN NullPosition
    ELSE Position(Candidates(d, a)[1])

\* As findAnchorPosition, without the check of the empty document.
FindAnchorPositionNoEmptyCheck(d, a) ==
    IF ~LoopTerminates(RegExp(EscapeRegex(a.exact)), d) THEN NoReturn
    ELSE IF Len(Candidates(d, a)) = 0 THEN NullPosition
    ELSE IF Len(Candidates(d, a)) = 1 THEN Position(Candidates(d, a)[1])
    ELSE Position(BestMatch(d, Candidates(d, a), a))

\* As findAnchorPosition, the sort leaving the last of the candidates of
\* the highest score in front.
FindAnchorPositionLastBest(d, a) ==
    IF Len(d) = 0 THEN NullPosition
    ELSE IF ~LoopTerminates(RegExp(EscapeRegex(a.exact)), d) THEN NoReturn
    ELSE LET matches == Candidates(d, a)
             reversed == [i \in 1..Len(matches) |-> matches[Len(matches) + 1 - i]]
         IN  IF Len(matches) = 0 THEN NullPosition
             ELSE IF Len(matches) = 1 THEN Position(matches[1])
             ELSE Position(BestMatch(d, reversed, a))

\* As findAnchorPosition, a single match going through the scoring too and
\* being dropped when its context scores nothing.
FindAnchorPositionScoredOnly(d, a) ==
    IF Len(d) = 0 THEN NullPosition
    ELSE IF ~LoopTerminates(RegExp(EscapeRegex(a.exact)), d) THEN NoReturn
    ELSE LET matches == Candidates(d, a)
         IN  IF Len(matches) = 0 THEN NullPosition
             ELSE IF TotalScore(d, BestMatch(d, matches, a), a) = 0 THEN NullPosition
             ELSE Position(BestMatch(d, matches, a))

FindAnchorPosition(d, a) ==
    IF Len(d) = 0 THEN NullPosition
    ELSE IF ~LoopTerminates(RegExp(EscapeRegex(a.exact)), d) THEN NoReturn
    ELSE LET matches == Candidates(d, a)
         IN  IF Len(matches) = 0 THEN NullPosition
             ELSE IF Len(matches) = 1 THEN Position(matches[1])
             ELSE Position(BestMatch(d, matches, a))

(***************************************************************************)
(* WordSnapper.                                                            *)
(***************************************************************************)
SnapWindow == 100
SuffixSearchMinLength == 5

\* \w
WordChars ==
    {"a", "b", "c", "d", "e", "f", "g", "h", "i", "j", "k", "l", "m",
     "n", "o", "p", "q", "r", "s", "t", "u", "v", "w", "x", "y", "z",
     "A", "B", "C", "D", "E", "F", "G", "H", "I", "J", "K", "L", "M",
     "N", "O", "P", "Q", "R", "S", "T", "U", "V", "W", "X", "Y", "Z",
     "0", "1", "2", "3", "4", "5", "6", "7", "8", "9", "_"}
WhiteSpace == {" ", "\t", "\n", "\r"}

RECURSIVE TrimEnd(_)
TrimEnd(s) ==
    IF s # <<>> /\ s[Len(s)] \in WhiteSpace THEN TrimEnd(SubSeq(s, 1, Len(s) - 1)) ELSE s

\* The matches of \b\w+\b in text: the maximal runs of word characters,
\* as [from, to] offsets.
WordRuns(text) ==
    LET starts == {i \in 0..(Len(text) - 1) :
                      /\ text[i + 1] \in WordChars
                      /\ (i = 0 \/ text[i] \notin WordChars)}
        runEnd(i) == CHOOSE j \in (i + 1)..Len(text) :
                        /\ (j = Len(text) \/ text[j + 1] \notin WordChars)
                        /\ \A k \in (i + 1)..(j - 1) : text[k + 1] \in WordChars
    IN  {[from |-> i, to |-> runEnd(i)] : i \in starts}

\* text.match(/\b\w+\b/): the leftmost run, or the empty set for null.
FirstWordMatch(text) ==
    LET runs == WordRuns(text)
    IN  {r \in runs : \A q \in runs : r.from <= q.from}

\* text.match(/\b\w+\b(?!.*\b\w+\b)/): the leftmost run that no other run
\* follows before the next line terminator ('.' does not match one).
LastWordMatch(text) ==
    LET runs == WordRuns(text)
        noneAfter(r) ==
            \A q \in runs :
                q.from >= r.to =>
                    \E k \in (r.to + 1)..q.from : text[k] \in LineTerminators
        ok == {r \in runs : noneAfter(r)}
    IN  {r \in ok : \A q \in ok : r.from <= q.from}

\* As SnapFirstWord, the offsets left relative to the window.
SnapFirstWordInWindow(context, searchStart) ==
    LET wordMatch == FirstWordMatch(context)
    IN  IF wordMatch # {}
        THEN LET w == CHOOSE r \in wordMatch : TRUE
             IN  [kind |-> "pos", from |-> w.from, to |-> w.to]
        ELSE NullPosition

SnapFirstWord(context, searchStart) ==
    LET wordMatch == FirstWordMatch(context)
    IN  IF wordMatch # {}
        THEN LET w == CHOOSE r \in wordMatch : TRUE
             IN  [kind |-> "pos", from |-> searchStart + w.from, to |-> searchStart + w.to]
        ELSE NullPosition

\* As snapToNearestWord, the window one character longer.
SnapToNearestWordWiderWindow(d, prefix, suffix) ==
    LET prefixIndex == LastIndexOf(d, prefix)
        searchStart == prefixIndex + Len(prefix)
        contextEnd == Min(searchStart + SnapWindow + 1, Len(d))
        context == Substring(d, searchStart, contextEnd)
        suffixIndex == IndexOf(context, suffix)
        beforeSuffix == TrimEnd(Substring(context, 0, suffixIndex))
        lastWordMatch == LastWordMatch(beforeSuffix)
    IN  IF prefixIndex = -1 THEN NullPosition
        ELSE IF /\ Len(suffix) > SuffixSearchMinLength
                /\ suffixIndex # -1
                /\ lastWordMatch # {}
        THEN LET w == CHOOSE r \in lastWordMatch : TRUE
                 word == Substring(beforeSuffix, w.from, w.to)
                 wordStart == searchStart + LastIndexOf(beforeSuffix, word)
             IN  [kind |-> "pos", from |-> wordStart, to |-> wordStart + Len(word)]
        ELSE SnapFirstWord(context, searchStart)

\* As snapToNearestWord, searching after the first occurrence of prefix.
SnapToNearestWordFirstPrefix(d, prefix, suffix) ==
    LET prefixIndex == IndexOf(d, prefix)
        searchStart == prefixIndex + Len(prefix)
        contextEnd == Min(searchStart + SnapWindow, Len(d))
        context == Substring(d, searchStart, contextEnd)
        suffixIndex == IndexOf(context, suffix)
        beforeSuffix == TrimEnd(Substring(context, 0, suffixIndex))
        lastWordMatch == LastWordMatch(beforeSuffix)
    IN  IF prefixIndex = -1 THEN NullPosition
        ELSE IF /\ Len(suffix) > SuffixSearchMinLength
                /\ suffixIndex # -1
                /\ lastWordMatch # {}
        THEN LET w == CHOOSE r \in lastWordMatch : TRUE
                 word == Substring(beforeSuffix, w.from, w.to)
                 wordStart == searchStart + LastIndexOf(beforeSuffix, word)
             IN  [kind |-> "pos", from |-> wordStart, to |-> wordStart + Len(word)]
        ELSE SnapFirstWord(context, searchStart)

SnapToNearestWord(d, prefix, suffix) ==
    LET prefixIndex == LastIndexOf(d, prefix)
        searchStart == prefixIndex + Len(prefix)
        contextEnd == Min(searchStart + SnapWindow, Len(d))
        context == Substring(d, searchStart, contextEnd)
        suffixIndex == IndexOf(context, suffix)
        beforeSuffix == TrimEnd(Substring(context, 0, suffixIndex))
        lastWordMatch == LastWordMatch(beforeSuffix)
    IN  IF prefixIndex = -1 THEN NullPosition
        ELSE IF /\ Len(suffix) > SuffixSearchMinLength
                /\ suffixIndex # -1
                /\ lastWordMatch # {}
        THEN LET w == CHOOSE r \in lastWordMatch : TRUE
                 word == Substring(beforeSuffix, w.from, w.to)
                 wordStart == searchStart + LastIndexOf(beforeSuffix, word)
             IN  [kind |-> "pos", from |-> wordStart, to |-> wordStart + Len(word)]
        ELSE SnapFirstWord(context, searchStart)

(***************************************************************************)
(* CommentValidator.  In a result, from = to = -1 stands for null.         *)
(***************************************************************************)
FindAnchorPositionWithStatus(d, a, opts) ==
    LET exactPosition == FindAnchorPosition(d, a)
        snappedPos == SnapToNearestWord(d, a.prefix, a.suffix)
    IN  IF Len(d) = 0 THEN [from |-> -1, to |-> -1, status |-> "orphaned"]
        ELSE IF exactPosition.kind = "noreturn"
        THEN [from |-> -1, to |-> -1, status |-> "noreturn"]
        ELSE IF exactPosition.kind = "pos"
        THEN [from |-> exactPosition.from, to |-> exactPosition.to, status |-> "exact"]
        ELSE IF opts.allowSnap /\ snappedPos.kind = "pos"
        THEN [from |-> snappedPos.from, to |-> snappedPos.to, status |-> "snapped"]
        ELSE [from |-> -1, to |-> -1, status |-> "orphaned"]

\* As validateComment, testing result.from for truthiness instead of
\* comparing it with null.
ValidateCommentTruthyFrom(d, comment, opts) ==
    LET result == FindAnchorPositionWithStatus(d, comment.anchor,
                      [allowSnap |-> opts.allowSnap, warnOnSnap |-> opts.warnOnSnap])
    IN  [id |-> comment.id,
         originalAnchor |-> comment.anchor,
         status |-> result.status,
         position |-> IF result.from > 0
                      THEN [kind |-> "pos", from |-> result.from, to |-> result.to]
                      ELSE NullPosition,
         isValid |-> result.status # "orphaned"]

\* A result of status "noreturn" stands for a call that never returns.
ValidateComment(d, comment, opts) ==
    LET result == FindAnchorPositionWithStatus(d, comment.anchor,
                      [allowSnap |-> opts.allowSnap, warnOnSnap |-> opts.warnOnSnap])
    IN  [id |-> comment.id,
         originalAnchor |-> comment.anchor,
         status |-> result.status,
         position |-> IF result.from # -1
                      THEN [kind |-> "pos", from |-> result.from, to |-> result.to]
                      ELSE NullPosition,
         isValid |-> result.status # "orphaned"]

\* The value of a pass that reaches a comment whose validateComment does
\* not return: the pass does not return either.
NoReturnResults ==
    [kind |-> "noreturn", valid |-> <<>>, snapped |-> <<>>, orphaned |-> <<>>,
     total |-> 0, validCount |-> 0, snappedCount |-> 0, orphanedCount |-> 0]

\* The validation of every comment, in the order of the for loop of
\* validateComments.
Validations(d, cs, opts) == [i \in 1..Len(cs) |-> ValidateComment(d, cs[i], opts)]

\* The three arrays the loop pushes the validations to, each in the order
\* of the comments, and the object returned after it.
Partition(vs) ==
    IF \E i \in 1..Len(vs) : vs[i].status = "noreturn" THEN NoReturnResults
    ELSE LET valid == SelectSeq(vs, LAMBDA v : v.status = "exact")
             snapped == SelectSeq(vs, LAMBDA v : v.status = "snapped")
             orphaned == SelectSeq(vs, LAMBDA v : v.status \notin {"exact", "snapped"})
         IN  [kind |-> "returned", valid |-> valid, snapped |-> snapped,
              orphaned |-> orphaned, total |-> Len(vs), validCount |-> Len(valid),
              snappedCount |-> Len(snapped), orphanedCount |-> Len(orphaned)]

\* As validateComments, the snapped validations pushed to valid.
ValidateCommentsSnappedAsValid(d, cs, opts) ==
    LET r == Partition(Validations(d, cs, opts))
    IN  [r EXCEPT !.valid = r.valid \o r.snapped, !.snapped = <<>>,
                  !.validCount = Len(r.valid) + Len(r.snapped), !.snappedCount = 0]

\* As validateComments, answering from the last pass's result when there is
\* one for as many comments (a cache that looks at neither the options nor
\* the anchors).
ValidateCommentsLastKnown(d, cs, opts) ==
    IF op = "validateComments" /\ results.kind = "returned" /\ results.total = Len(cs)
    THEN results
    ELSE Partition(Validations(d, cs, opts))

ValidateComments(d, cs, opts) == Partition(Validations(d, cs, opts))

\* results.orphaned.map((v) => v.id)
OrphanedIds(res) ==
    [kind |-> res.kind, ids |-> [i \in 1..Len(res.orphaned) |-> res.orphaned[i].id]]

\* As getOrphanedCommentIds, the pass allowed to snap.
GetOrphanedCommentIdsAllowSnap(d, cs) ==
    OrphanedIds(ValidateComments(d, cs, [allowSnap |-> TRUE, warnOnSnap |-> TRUE]))

\* { allowSnap: false }: warnOnSnap is undefined, which validateComment
\* takes for true.
GetOrphanedCommentIds(d, cs) ==
    OrphanedIds(ValidateComments(d, cs, [allowSnap |-> FALSE, warnOnSnap |-> TRUE]))

\* As AfterValidateComments, a snapped comment's anchor rewritten to the
\* word it was snapped to.
ValidateCommentsReanchoring(d, cs, opts) ==
    [i \in 1..Len(cs) |->
        LET v == ValidateComment(d, cs[i], opts)
        IN  IF v.status = "snapped"
            THEN [cs[i] EXCEPT !.anchor.exact = Substring(d, v.position.from, v.position.to)]
            ELSE cs[i]]

\* The comments array after validateComments(d, cs, opts): the pass assigns
\* to no field of a comment or of an anchor, and to no element of the array.
AfterValidateComments(d, cs, opts) == cs

(***************************************************************************)
(* Inputs: every document over SmallAlphabet of at most MaxDocLen          *)
(* characters with every anchor over it within MaxContextLen and           *)
(* MaxExactLen, the documented scenarios, and a long periodic document     *)
(* whose selections have more than ContextLength characters on both sides. *)
(***************************************************************************)
SmallAlphabet == {"a", "."}

Strings(alphabet, n) == UNION {[1..k -> alphabet] : k \in 0..n}

SmallDocs == Strings(SmallAlphabet, MaxDocLen)

SmallAnchors ==
    [prefix : Strings(SmallAlphabet, MaxContextLen),
     exact  : Strings(SmallAlphabet, MaxExactLen),
     suffix : Strings(SmallAlphabet, MaxContextLen)]

\* Scenario A: "foo bar baz | foo bar qux", anchor {"| ", "foo bar", " qux"}.
ScenarioADoc ==
    <<"f", "o", "o", " ", "b", "a", "r", " ", "b", "a", "z", " ", "|", " ",
    "f", "o", "o", " ", "b", "a", "r", " ", "q", "u", "x">>
ScenarioAAnchor ==
    [prefix |-> <<"|", " ">>,
     exact |-> <<"f", "o", "o", " ", "b", "a", "r">>,
     suffix |-> <<" ", "q", "u", "x">>]

\* Scenario B: "abc", anchor {"", "xyz", ""}.
ScenarioBDoc ==
    <<"a", "b", "c">>
ScenarioBAnchor == [prefix |-> <<>>, exact |-> <<"x", "y", "z">>, suffix |-> <<>>]

\* Scenario C: "hello world".
ScenarioCDoc ==
    <<"h", "e", "l", "l", "o", " ", "w", "o", "r", "l", "d">>
ScenarioCAnchor ==
    [prefix |-> <<>>, exact |-> <<"h", "e", "l", "l", "o">>,
     suffix |-> <<" ", "w", "o", "r", "l", "d">>]

\* Scenario D: "he said  world", anchor {"he said ", "hello", " world"}.
ScenarioDDoc ==
    <<"h", "e", " ", "s", "a", "i", "d", " ", " ", "w", "o", "r", "l", "d">>
ScenarioDAnchor ==
    [prefix |-> <<"h", "e", " ", "s", "a", "i", "d", " ">>,
     exact |-> <<"h", "e", "l", "l", "o">>,
     suffix |-> <<" ", "w", "o", "r", "l", "d">>]

\* Scenario E: "a.b(c) and a.b(c)" and "aXb(c)", exact "a.b(c)".
ScenarioEDoc ==
    <<"a", ".", "b", "(", "c", ")", " ", "a", "n", "d", " ", "a", ".", "b",
    "(", "c", ")">>
ScenarioEOtherDoc ==
    <<"a", "X", "b", "(", "c", ")">>
ScenarioEAnchor ==
    [prefix |-> <<>>, exact |-> <<"a", ".", "b", "(", "c", ")">>, suffix |-> <<>>]

\* "abab...ab", 2 * ContextLength + 8 characters.
LongDoc == [i \in 1..(2 * ContextLength + 8) |-> IF i % 2 = 1 THEN "a" ELSE "b"]
LongAnchor == [prefix |-> <<"b">>, exact |-> <<"a", "b">>, suffix |-> <<"a">>]

\* Two occurrences of "x": the first followed by the stored suffix and not
\* preceded by the stored prefix, the second preceded by the stored prefix
\* and followed by all of the stored suffix but its last character.
ScoringSuffix == [i \in 1..ContextLength |-> IF i = ContextLength THEN "z" ELSE "y"]
ScoringNearSuffix == [i \in 1..ContextLength |-> IF i = ContextLength THEN "w" ELSE "y"]
ScoringPrefix == [i \in 1..ContextLength |-> "p"]
ScoringDoc == <<"x">> \o ScoringSuffix \o ScoringPrefix \o <<"x">> \o ScoringNearSuffix
ScoringAnchor == [prefix |-> ScoringPrefix, exact |-> <<"x">>, suffix |-> ScoringSuffix]

ScenarioInputs ==
    {[doc |-> ScenarioADoc, anchor |-> ScenarioAAnchor],
     [doc |-> ScenarioBDoc, anchor |-> ScenarioBAnchor],
     [doc |-> ScenarioCDoc, anchor |-> ScenarioCAnchor],
     [doc |-> ScenarioDDoc, anchor |-> ScenarioDAnchor],
     [doc |-> ScenarioEDoc, anchor |-> ScenarioEAnchor],
     [doc |-> ScenarioEOtherDoc, anchor |-> ScenarioEAnchor],
     [doc |-> LongDoc, anchor |-> LongAnchor],
     [doc |-> ScoringDoc, anchor |-> ScoringAnchor]}

\* A stored comment met with a document: any anchor with any document.
Inputs == {[doc |-> d, anchor |-> a] : d \in SmallDocs, a \in SmallAnchors} \cup ScenarioInputs

\* The documents a comment can be created in.
Docs == {i.doc : i \in Inputs} \ {ScoringDoc}

(***************************************************************************)
(* State: the document, the anchor of the comment at hand (NoAnchor before  *)
(* a comment exists), the selection the anchor was built from in this      *)
(* document (from = to = -1 when it was not), the last operation (or       *)
(* "loaded" for a stored comment, "empty" for no comment yet), its         *)
(* options and its result.                                                 *)
(***************************************************************************)
NoSelection == [from |-> -1, to |-> -1]
NoPosition == [kind |-> "none", from |-> -1, to |-> -1]
NoValidation ==
    [id |-> "", originalAnchor |-> [prefix |-> <<>>, exact |-> <<>>, suffix |-> <<>>],
     status |-> "none", position |-> NoPosition, isValid |-> FALSE]
DefaultOptions == [allowSnap |-> FALSE, warnOnSnap |-> TRUE]
NoAnchor == [prefix |-> <<>>, exact |-> <<>>, suffix |-> <<>>]

CommentId == "c1"
Comment == [id |-> CommentId, anchor |-> anchor]

\* The comment store and the file navigation before anything is loaded.
NoResults ==
    [kind |-> "none", valid |-> <<>>, snapped |-> <<>>, orphaned |-> <<>>,
     total |-> 0, validCount |-> 0, snappedCount |-> 0, orphanedCount |-> 0]
NoPasses == [allowSnap \in BOOLEAN |-> [first |-> NoResults, calls |-> 0]]
NoAppState ==
    [currentPath |-> <<>>, currentFileHandle |-> "null", currentFilename |-> "",
     currentDirHandle |-> "null", previousPath |-> <<>>, previousFileHandle |-> "null",
     previousFilename |-> "", isNavigatingBreadcrumbs |-> FALSE]

StoreIdle ==
    /\ comments = <<>>
    /\ clock = 0
    /\ results = NoResults
    /\ passes = NoPasses

NoNavigation == [navigating |-> FALSE, navigations |-> 0, state |-> NoAppState]
NoCall == [index |-> -1, file |-> "null", callbacks |-> {}]
NavIdle ==
    /\ appState = NoAppState
    /\ pickerOpen = FALSE
    /\ beforeNavigation = NoNavigation
    /\ beforePicker = NoAppState
    /\ call = NoCall

AnchorIdle ==
    /\ anchor = NoAnchor
    /\ sel = NoSelection
    /\ position = NoPosition
    /\ validation = NoValidation

\* The banner as createVersionBanner leaves it, with no check made.
NoBanner == [hidden |-> TRUE, content |-> "update"]
NoChecks == [started |-> 0, inFlight |-> 0, found |-> "none",
             welcomed |-> FALSE, dismissed |-> FALSE]
VersionIdle ==
    /\ banner = NoBanner
    /\ versionBannerDismissed = FALSE
    /\ hasSeenWelcome = FALSE
    /\ checks = NoChecks

\* An empty session file and no handler running.
SaveIdle ==
    /\ sessionFile = <<>>
    /\ handlers = <<>>

Init ==
    /\ \/ \E i \in Inputs : doc = i.doc /\ anchor = i.anchor /\ op = "loaded"
       \/ \E d \in Docs : doc = d /\ anchor = NoAnchor /\ op = "empty"
    /\ sel = NoSelection
    /\ options = DefaultOptions
    /\ position = NoPosition
    /\ validation = NoValidation
    /\ StoreIdle
    /\ NavIdle
    /\ VersionIdle
    /\ SaveIdle

\* handleAddComment: the anchor of a new comment from the editor's selection
\* (of at most MaxSelectionLen characters), taken once per document.
CreateAnchorOp ==
    /\ op = "empty"
    /\ \E from \in 0..Len(doc) : \E to \in from..Min(Len(doc), from + MaxSelectionLen) :
          /\ anchor' = CreateAnchor(doc, from, to)
          /\ sel' = [from |-> from, to |-> to]
    /\ op' = "createAnchor"
    /\ options' = DefaultOptions
    /\ position' = NoPosition
    /\ validation' = NoValidation
    /\ UNCHANGED <<doc, storeVars, navVars, versionVars, saveVars>>

\* refreshCommentDecorations: the anchor lookup of one comment.
FindAnchorPositionOp ==
    /\ position' = FindAnchorPosition(doc, anchor)
    /\ op' = "findAnchorPosition"
    /\ options' = DefaultOptions
    /\ validation' = NoValidation
    /\ UNCHANGED <<doc, anchor, sel, storeVars, navVars, versionVars, saveVars>>

ValidateCommentOp ==
    /\ \E allowSnap \in BOOLEAN :
          /\ options' = [allowSnap |-> allowSnap, warnOnSnap |-> TRUE]
          /\ validation' = ValidateComment(doc, Comment, options')
    /\ op' = "validateComment"
    /\ position' = NoPosition
    /\ UNCHANGED <<doc, anchor, sel, storeVars, navVars, versionVars, saveVars>>

Next ==
    \/ CreateAnchorOp
    \/ FindAnchorPositionOp
    \/ ValidateCommentOp

Spec == Init /\ [][Next]_vars

(***************************************************************************)
(* The word snapper on its own: documents made of a lead, a marker, a gap  *)
(* of at most MaxGapLen characters (word characters, blanks and line       *)
(* breaks) and an ending, with anchors whose prefix is the marker, empty   *)
(* or absent and whose suffix is one of the endings or absent; two         *)
(* documents whose gap reaches the end of the window; and Scenario D.      *)
(***************************************************************************)
MaxGapLen == 4

GapAlphabet == {"a", " ", "\n"}
Marker == <<"#">>
\* ";tail." has more than SuffixSearchMinLength characters, ";end" has not.
LongEnding == <<";", "t", "a", "i", "l", ".">>
ShortEnding == <<";", "e", "n", "d">>
AbsentEnding == <<":", ":", ":", ":", ":", ":">>
GoneText == <<"z">>

SnapDocs ==
    {lead \o Marker \o gap \o ending :
        lead \in {<<>>, <<"#", "a", " ">>},
        gap \in Strings(GapAlphabet, MaxGapLen),
        ending \in {LongEnding, ShortEnding, <<>>}}

SnapAnchors ==
    [prefix : {Marker, <<>>, <<"?">>},
     exact  : {GoneText, <<"a">>},
     suffix : {LongEnding, ShortEnding, AbsentEnding, <<>>}]

\* The marker, blanks up to two characters before the end of the window
\* (or up to its end), a word, and the long ending.
Blanks(n) == [i \in 1..n |-> " "]
WindowCutDoc == Marker \o Blanks(SnapWindow - 2) \o <<"a", "b", "c", "d">> \o LongEnding
WindowMissDoc == Marker \o Blanks(SnapWindow) \o <<"a", "b", "c", "d">> \o LongEnding
WindowAnchor == [prefix |-> Marker, exact |-> GoneText, suffix |-> LongEnding]

SnapInputs ==
    {[doc |-> d, anchor |-> a] : d \in SnapDocs, a \in SnapAnchors}
    \cup {[doc |-> WindowCutDoc, anchor |-> WindowAnchor],
          [doc |-> WindowMissDoc, anchor |-> WindowAnchor],
          [doc |-> ScenarioDDoc, anchor |-> ScenarioDAnchor]}

SnapInit ==
    /\ \E i \in SnapInputs : doc = i.doc /\ anchor = i.anchor
    /\ op = "loaded"
    /\ sel = NoSelection
    /\ options = DefaultOptions
    /\ position = NoPosition
    /\ validation = NoValidation
    /\ StoreIdle
    /\ NavIdle
    /\ VersionIdle
    /\ SaveIdle

\* findAnchorPositionWithStatus, once the exact text was not found: the
\* call of snapToNearestWord.
SnapToNearestWordOp ==
    /\ position' = SnapToNearestWord(doc, anchor.prefix, anchor.suffix)
    /\ op' = "snapToNearestWord"
    /\ options' = DefaultOptions
    /\ validation' = NoValidation
    /\ UNCHANGED <<doc, anchor, sel, storeVars, navVars, versionVars, saveVars>>

SnapNext ==
    \/ SnapToNearestWordOp
    \/ FindAnchorPositionOp
    \/ ValidateCommentOp

SnapSpec == SnapInit /\ [][SnapNext]_vars

(***************************************************************************)
(* A comment's document edited after the comment was made: one insertion   *)
(* or deletion of at most MaxEditLen characters that lies outside the      *)
(* commented span and the prefix and suffix stored with it, then the       *)
(* anchor lookup of the next refresh.  The documents are the strings of at *)
(* most MaxEditDocLen characters, commented on any selection, and a        *)
(* document with ContextLength characters on either side of its middle     *)
(* word, commented on spans whose stored contexts leave text outside.      *)
(* sel follows the commented span through the edit.                        *)
(***************************************************************************)
MaxEditDocLen == 3
MaxEditLen == 2

EditTexts == Strings(SmallAlphabet, MaxEditLen) \ {<<>>}
Padding == [i \in 1..ContextLength |-> "-"]
PaddedDoc == <<"a", "b">> \o Padding \o <<"a", "b">> \o Padding \o <<"a", "b">>
PaddedSelections ==
    {[from |-> ContextLength + 2, to |-> ContextLength + 4],
     [from |-> ContextLength + 2, to |-> ContextLength + 3],
     [from |-> 0, to |-> 2]}

EditInit ==
    /\ \/ /\ doc \in Strings(SmallAlphabet, MaxEditDocLen)
          /\ anchor = NoAnchor
          /\ sel = NoSelection
          /\ op = "empty"
       \/ /\ doc = PaddedDoc
          /\ sel \in PaddedSelections
          /\ anchor = CreateAnchor(doc, sel.from, sel.to)
          /\ op = "createAnchor"
    /\ options = DefaultOptions
    /\ position = NoPosition
    /\ validation = NoValidation
    /\ StoreIdle
    /\ NavIdle
    /\ VersionIdle
    /\ SaveIdle

Inserted(d, p, t) == SubSeq(d, 1, p) \o t \o SubSeq(d, p + 1, Len(d))
Deleted(d, p, q) == SubSeq(d, 1, p) \o SubSeq(d, q + 1, Len(d))

\* The user's edit, in the editor, of the document of a comment.
EditDocument ==
    /\ op = "createAnchor"
    /\ LET contextStart == sel.from - Len(anchor.prefix)
           contextEnd == sel.to + Len(anchor.suffix)
           Shifted(k) == [from |-> sel.from + k, to |-> sel.to + k]
       IN  \/ \E p \in 0..Len(doc), t \in EditTexts :
                 /\ p <= contextStart \/ p >= contextEnd
                 /\ doc' = Inserted(doc, p, t)
                 /\ sel' = IF p <= contextStart THEN Shifted(Len(t)) ELSE sel
           \/ \E p \in 0..Len(doc), q \in 0..Len(doc) :
                 /\ p < q
                 /\ q - p <= MaxEditLen
                 /\ q <= contextStart \/ p >= contextEnd
                 /\ doc' = Deleted(doc, p, q)
                 /\ sel' = IF q <= contextStart THEN Shifted(p - q) ELSE sel
    /\ op' = "edit"
    /\ position' = NoPosition
    /\ validation' = NoValidation
    /\ UNCHANGED <<anchor, options, storeVars, navVars, versionVars, saveVars>>

\* refreshCommentDecorations on the edited document.
RefreshAfterEdit ==
    /\ op = "edit"
    /\ FindAnchorPositionOp

EditNext ==
    \/ CreateAnchorOp
    \/ EditDocument
    \/ RefreshAfterEdit

EditSpec == EditInit /\ [][EditNext]_vars

(***************************************************************************)
(* The comment store: appState.comments, an array of comments               *)
(* [id, fileRelativePath, userId, anchor, timestamp, resolved, thread],    *)
(* with the handlers that change it and the passes that read it.  clock    *)
(* is the time (Date.now) since the session was loaded, which passes with  *)
(* every handler, and the source of the ids (crypto.randomUUID).           *)
(* results is the value of the last pass, and passes[allowSnap] the value  *)
(* of the first validateComments with that option since the comments last  *)
(* changed, with the number of such calls (counted up to MaxCalls).        *)
(***************************************************************************)
MaxComments == 2
MaxClock == 2
MaxCalls == 2

CurrentFile == "notes.md"
CurrentUser == "u1"
OtherUser == "u2"

\* The document of the store: "ab cd".
StoreDoc == <<"a", "b", " ", "c", "d">>
StoreDocs == {StoreDoc, <<>>}

\* Stored anchors: one whose text is in StoreDoc, one whose text is gone
\* with its prefix still there, one whose text and prefix are both gone,
\* and a malformed one (empty exact).
FoundAnchor == [prefix |-> <<>>, exact |-> <<"a", "b">>, suffix |-> <<" ">>]
GoneAnchor == [prefix |-> <<"a", "b", " ">>, exact |-> <<"z", "z">>, suffix |-> <<>>]
LostAnchor == [prefix |-> <<"q">>, exact |-> <<"z", "z">>, suffix |-> <<>>]
MalformedAnchor == [prefix |-> <<>>, exact |-> <<>>, suffix |-> <<>>]
StoredAnchors == {FoundAnchor, GoneAnchor, LostAnchor, MalformedAnchor}

\* The selections comments are added on: the words of StoreDoc.
StoreSelections == {[from |-> 0, to |-> 2], [from |-> 3, to |-> 5]}

\* The comments of a session file, all of them older than the session:
\* comment i has id -i.
StoredComment(i, a) ==
    [id |-> -i, fileRelativePath |-> CurrentFile, userId |-> OtherUser, anchor |-> a,
     timestamp |-> 0, resolved |-> FALSE, thread |-> <<>>]

StoredComments(anchors) ==
    UNION {{[i \in 1..n |-> StoredComment(i, f[i])] : f \in [1..n -> anchors]} :
              n \in 0..MaxComments}

\* A session whose comments were made in the application (the toolbar
\* offers no comment on an empty selection), opened with its document.
StoreInit ==
    /\ doc = StoreDoc
    /\ comments \in StoredComments({FoundAnchor, GoneAnchor})
    /\ clock = 0
    /\ results = NoResults
    /\ passes = NoPasses
    /\ op = "loaded"
    /\ options = DefaultOptions
    /\ AnchorIdle
    /\ NavIdle
    /\ VersionIdle
    /\ SaveIdle

CommentIds == {comments[i].id : i \in 1..Len(comments)}

\* comments.findIndex((c) => c.id === commentId), for an id in the array.
IndexOfComment(cs, commentId) == CHOOSE i \in 1..Len(cs) : cs[i].id = commentId

\* selection.text.trim().length > 0
IsBlank(text) == \A i \in 1..Len(text) : text[i] \in WhiteSpace

\* The map and filter of refreshCommentDecorations: a comment whose lookup
\* does not return stops the pass.
CommentsWithPositions(d, cs) ==
    LET found == [i \in 1..Len(cs) |->
                     [id |-> cs[i].id, position |-> FindAnchorPosition(d, cs[i].anchor),
                      resolved |-> cs[i].resolved]]
    IN  IF \E i \in 1..Len(found) : found[i].position.kind = "noreturn"
        THEN [kind |-> "noreturn", decorations |-> <<>>]
        ELSE [kind |-> "returned",
              decorations |-> SelectSeq(found, LAMBDA c : c.position.kind = "pos")]

\* handleAddComment: a comment on the editor's selection, with a new id, an
\* empty thread and resolved false, added to the store.
HandleAddComment ==
    /\ Len(comments) < MaxComments
    /\ clock < MaxClock
    /\ \E selection \in StoreSelections :
          /\ selection.to <= Len(doc)
          /\ ~IsBlank(Substring(doc, selection.from, selection.to))
          /\ comments' = Append(comments,
                 [id |-> clock + 1, fileRelativePath |-> CurrentFile, userId |-> CurrentUser,
                  anchor |-> CreateAnchor(doc, selection.from, selection.to),
                  timestamp |-> clock + 1, resolved |-> FALSE, thread |-> <<>>])
    /\ clock' = clock + 1
    /\ passes' = NoPasses
    /\ op' = "handleAddComment"
    /\ UNCHANGED <<doc, options, results, anchorVars, navVars, versionVars, saveVars>>

\* As Reply, the thread starting over with the reply.
ReplyReplacingThread(c, reply) == [c EXCEPT !.thread = <<reply>>]

\* comment.thread.push(reply)
Reply(c, reply) == [c EXCEPT !.thread = Append(c.thread, reply)]

HandleReply ==
    /\ clock < MaxClock
    /\ \E commentId \in CommentIds :
          LET i == IndexOfComment(comments, commentId)
              reply == [userId |-> CurrentUser, text |-> "reply",
                        timestamp |-> clock + 1, userName |-> CurrentUser]
          IN  comments' = [comments EXCEPT ![i] = Reply(comments[i], reply)]
    /\ clock' = clock + 1
    /\ passes' = NoPasses
    /\ op' = "handleReply"
    /\ UNCHANGED <<doc, options, results, anchorVars, navVars, versionVars, saveVars>>

\* comment.resolved = true
Resolve(c) == [c EXCEPT !.resolved = TRUE]

HandleResolve ==
    /\ clock < MaxClock
    /\ \E commentId \in CommentIds :
          LET i == IndexOfComment(comments, commentId)
          IN  comments' = [comments EXCEPT ![i] = Resolve(comments[i])]
    /\ clock' = clock + 1
    /\ passes' = NoPasses
    /\ op' = "handleResolve"
    /\ UNCHANGED <<doc, options, results, anchorVars, navVars, versionVars, saveVars>>

\* appState.deleteComment(commentId)
DeleteComment(cs, commentId) == SelectSeq(cs, LAMBDA c : c.id # commentId)

\* handleDelete, with the refresh of the decorations that ends it.
HandleDelete ==
    /\ clock < MaxClock
    /\ \E commentId \in CommentIds : comments' = DeleteComment(comments, commentId)
    /\ results' = CommentsWithPositions(doc, comments')
    /\ clock' = clock + 1
    /\ passes' = NoPasses
    /\ op' = "handleDelete"
    /\ UNCHANGED <<doc, options, anchorVars, navVars, versionVars, saveVars>>

RefreshCommentDecorations ==
    /\ results' = CommentsWithPositions(doc, comments)
    /\ op' = "refreshCommentDecorations"
    /\ UNCHANGED <<doc, comments, clock, options, passes, anchorVars, navVars, versionVars, saveVars>>

ValidateCommentsPass ==
    /\ \E allowSnap \in BOOLEAN :
          /\ options' = [allowSnap |-> allowSnap, warnOnSnap |-> TRUE]
          /\ results' = ValidateComments(doc, comments, options')
          /\ comments' = AfterValidateComments(doc, comments, options')
          /\ passes' = [passes EXCEPT ![allowSnap] =
                            [first |-> IF @.calls = 0 THEN results' ELSE @.first,
                             calls |-> Min(@.calls + 1, MaxCalls)]]
    /\ op' = "validateComments"
    /\ UNCHANGED <<doc, clock, anchorVars, navVars, versionVars, saveVars>>

GetOrphanedCommentIdsPass ==
    /\ results' = GetOrphanedCommentIds(doc, comments)
    /\ op' = "getOrphanedCommentIds"
    /\ UNCHANGED <<doc, comments, clock, options, passes, anchorVars, navVars, versionVars, saveVars>>

StoreNext ==
    \/ HandleAddComment
    \/ HandleReply
    \/ HandleResolve
    \/ HandleDelete
    \/ RefreshCommentDecorations
    \/ ValidateCommentsPass
    \/ GetOrphanedCommentIdsPass

StoreSpec == StoreInit /\ [][StoreNext]_vars

(***************************************************************************)
(* The passes alone, over the comments of any session file (a malformed    *)
(* anchor included) and a document that has them or is empty.              *)
(***************************************************************************)
PassInit ==
    /\ doc \in StoreDocs
    /\ comments \in StoredComments(StoredAnchors)
    /\ clock = 0
    /\ results = NoResults
    /\ passes = NoPasses
    /\ op = "loaded"
    /\ options = DefaultOptions
    /\ AnchorIdle
    /\ NavIdle
    /\ VersionIdle
    /\ SaveIdle

PassNext ==
    \/ RefreshCommentDecorations
    \/ ValidateCommentsPass
    \/ GetOrphanedCommentIdsPass

PassSpec == PassInit /\ [][PassNext]_vars

(***************************************************************************)
(* Breadcrumb navigation: the fields of appState that navigateToPathIndex, *)
(* showFilePicker, hideFilePicker and openFileFromPicker read and write.   *)
(* A path is a sequence of segments {name, handle}; a null handle is       *)
(* "null" and a null previousPath is the empty sequence of paths, a saved  *)
(* one the sequence of that one path.  pickerOpen is the file picker       *)
(* shown.  beforeNavigation records the navigations made since the picker  *)
(* was last closed: whether there was one that the picker has not yet      *)
(* closed (navigating), how many (up to MaxNavigations), and appState as   *)
(* it was before the first of them; closing the picker keeps the record    *)
(* until the next operation.  beforePicker is appState as it was before    *)
(* the last direct showFilePicker; call is the last handler's index or     *)
(* file argument and the callbacks it called.                              *)
(***************************************************************************)
MaxPathLen == 3
MaxNavigations == 2

SegmentNames == <<"root", "src", "components", "ui">>
Segment(n) == [name |-> SegmentNames[n], handle |-> SegmentNames[n]]
PathOfLength(n) == [k \in 1..n |-> Segment(k)]
\* A path whose segments carry no handle, as the tests of the index check
\* build it.
BarePathOfLength(n) == [k \in 1..n |-> [name |-> SegmentNames[k], handle |-> "null"]]
FileHandles == {"h1", "h2"}
FilenameOf(h) == IF h = "h1" THEN "Button.js" ELSE "test.js"

\* A folder open at some depth, or none, with a file open or none; no
\* restoration state, the picker hidden.
NavInit ==
    /\ \E n \in 0..MaxPathLen, h \in FileHandles \cup {"null"} :
       \E path \in {PathOfLength(n), BarePathOfLength(n)} :
          appState = [currentPath |-> path,
                      currentFileHandle |-> h,
                      currentFilename |-> IF h = "null" THEN "" ELSE FilenameOf(h),
                      currentDirHandle |-> IF n = 0 THEN "null" ELSE path[n].handle,
                      previousPath |-> <<>>,
                      previousFileHandle |-> "null",
                      previousFilename |-> "",
                      isNavigatingBreadcrumbs |-> FALSE]
    /\ pickerOpen = FALSE
    /\ beforeNavigation = NoNavigation
    /\ beforePicker = NoAppState
    /\ call = NoCall
    /\ doc = <<>>
    /\ op = "loaded"
    /\ options = DefaultOptions
    /\ AnchorIdle
    /\ StoreIdle
    /\ VersionIdle
    /\ SaveIdle

\* showFilePicker as the navigation documentation gives it: the open file
\* is saved for restoration and cleared; isNavigatingBreadcrumbs is left
\* as it is.
ShowFilePickerDocumented(s) ==
    LET saved == IF s.currentFileHandle # "null"
                 THEN [s EXCEPT !.previousFileHandle = s.currentFileHandle,
                                !.previousFilename = s.currentFilename]
                 ELSE s
    IN  [saved EXCEPT !.currentFileHandle = "null", !.currentFilename = ""]

\* showFilePicker as the tests stand in for it: when a file is open it is
\* saved, isNavigatingBreadcrumbs is set, and the file is cleared.
ShowFilePickerSimulated(s) ==
    IF s.currentFileHandle # "null"
    THEN [s EXCEPT !.previousFileHandle = s.currentFileHandle,
                   !.previousFilename = s.currentFilename,
                   !.isNavigatingBreadcrumbs = TRUE,
                   !.currentFileHandle = "null",
                   !.currentFilename = ""]
    ELSE s

ShowFilePickerOutcomes(s) == {ShowFilePickerDocumented(s), ShowFilePickerSimulated(s)}

\* As the body of navigateToPathIndex, the path cut before the clicked
\* segment.
NavigatedCuttingBeforeIndex(s, index) ==
    LET saved == [s EXCEPT !.isNavigatingBreadcrumbs = TRUE,
                           !.previousPath = IF s.previousPath = <<>>
                                            THEN <<s.currentPath>>
                                            ELSE s.previousPath]
        kept == IF saved.currentFileHandle # "null" /\ saved.previousFileHandle = "null"
                THEN [saved EXCEPT !.previousFileHandle = saved.currentFileHandle,
                                   !.previousFilename = saved.currentFilename]
                ELSE saved
        path == SubSeq(kept.currentPath, 1, index)
    IN  [kept EXCEPT !.currentFileHandle = "null",
                     !.currentFilename = "",
                     !.currentPath = path,
                     !.currentDirHandle = IF path # <<>> /\ path[Len(path)].handle # "null"
                                          THEN path[Len(path)].handle
                                          ELSE kept.currentDirHandle]

\* As the body of navigateToPathIndex, previousPath saved at every
\* navigation.
NavigatedOverwritingPreviousPath(s, index) ==
    LET saved == [s EXCEPT !.isNavigatingBreadcrumbs = TRUE,
                           !.previousPath = <<s.currentPath>>]
        kept == IF saved.currentFileHandle # "null" /\ saved.previousFileHandle = "null"
                THEN [saved EXCEPT !.previousFileHandle = saved.currentFileHandle,
                                   !.previousFilename = saved.currentFilename]
                ELSE saved
        path == SubSeq(kept.currentPath, 1, Min(index + 1, Len(kept.currentPath)))
    IN  [kept EXCEPT !.currentFileHandle = "null",
                     !.currentFilename = "",
                     !.currentPath = path,
                     !.currentDirHandle = IF path # <<>> /\ path[Len(path)].handle # "null"
                                          THEN path[Len(path)].handle
                                          ELSE kept.currentDirHandle]

\* The body of navigateToPathIndex for a valid index, up to the call of
\* showFilePicker.
Navigated(s, index) ==
    LET saved == [s EXCEPT !.isNavigatingBreadcrumbs = TRUE,
                           !.previousPath = IF s.previousPath = <<>>
                                            THEN <<s.currentPath>>
                                            ELSE s.previousPath]
        kept == IF saved.currentFileHandle # "null" /\ saved.previousFileHandle = "null"
                THEN [saved EXCEPT !.previousFileHandle = saved.currentFileHandle,
                                   !.previousFilename = saved.currentFilename]
                ELSE saved
        path == SubSeq(kept.currentPath, 1, Min(index + 1, Len(kept.currentPath)))
    IN  [kept EXCEPT !.currentFileHandle = "null",
                     !.currentFilename = "",
                     !.currentPath = path,
                     !.currentDirHandle = IF path # <<>> /\ path[Len(path)].handle # "null"
                                          THEN path[Len(path)].handle
                                          ELSE kept.currentDirHandle]

\* As OutOfBounds, an index equal to the length of the path let through.
OutOfBoundsAboveLength(s, index) == index > Len(s.currentPath) \/ index < 0

\* The guard of navigateToPathIndex.
OutOfBounds(s, index) == index >= Len(s.currentPath) \/ index < 0

\* The callbacks navigateToPathIndex calls for a valid index, s being the
\* state at the call and t the state before showFilePicker is reached.
NavigationCallbacks(s, t, isDirty) ==
    {"saveFocusState"}
    \cup (IF isDirty /\ s.currentFileHandle # "null" THEN {"saveTempChanges"} ELSE {})
    \cup (IF t.currentDirHandle # "null" THEN {"showFilePicker"} ELSE {})

\* navigateToPathIndex(index): an index outside the path returns at once;
\* otherwise the state is saved, the file cleared, the path cut, and the
\* picker shown for the directory of the last segment.
NavigateToPathIndex ==
    \E index \in -1..MaxPathLen, isDirty \in BOOLEAN :
        /\ op' = "navigateToPathIndex"
        /\ UNCHANGED beforePicker
        /\ IF OutOfBounds(appState, index)
           THEN /\ UNCHANGED <<appState, pickerOpen>>
                /\ call' = [index |-> index, file |-> "null", callbacks |-> {}]
                /\ beforeNavigation' = IF beforeNavigation.navigating
                                       THEN beforeNavigation ELSE NoNavigation
           ELSE LET s == Navigated(appState, index)
                IN  /\ call' = [index |-> index, file |-> "null",
                                callbacks |-> NavigationCallbacks(appState, s, isDirty)]
                    /\ beforeNavigation' =
                          IF beforeNavigation.navigating
                          THEN [beforeNavigation EXCEPT
                                   !.navigations = Min(@ + 1, MaxNavigations)]
                          ELSE [navigating |-> TRUE, navigations |-> 1,
                                state |-> appState]
                    /\ IF s.currentDirHandle # "null"
                       THEN /\ appState' \in ShowFilePickerOutcomes(s)
                            /\ pickerOpen' = TRUE
                       ELSE /\ appState' = s
                            /\ UNCHANGED pickerOpen
        /\ UNCHANGED <<doc, options, anchorVars, storeVars, versionVars, saveVars>>

\* A click on the current filename or on the placeholder of the
\* breadcrumb: showFilePicker for the current directory, when there is one.
ShowFilePicker ==
    /\ appState.currentDirHandle # "null"
    /\ appState' \in ShowFilePickerOutcomes(appState)
    /\ pickerOpen' = TRUE
    /\ op' = "showFilePicker"
    /\ beforePicker' = appState
    /\ call' = [NoCall EXCEPT !.callbacks = {"saveFocusState", "showFilePicker"}]
    /\ beforeNavigation' = IF beforeNavigation.navigating
                           THEN beforeNavigation ELSE NoNavigation
    /\ UNCHANGED <<doc, options, anchorVars, storeVars, versionVars, saveVars>>

\* hideFilePicker: in navigation mode with no file selected, the saved
\* file and the saved path are restored; the restoration state is cleared
\* in every case.
Hidden(s) ==
    LET restoring == s.isNavigatingBreadcrumbs /\ s.currentFileHandle = "null"
        file == IF restoring /\ s.previousFileHandle # "null"
                THEN [s EXCEPT !.currentFileHandle = s.previousFileHandle,
                               !.currentFilename = s.previousFilename]
                ELSE s
        path == IF restoring /\ s.previousPath # <<>>
                THEN [file EXCEPT !.currentPath = s.previousPath[1]]
                ELSE file
    IN  [path EXCEPT !.previousFileHandle = "null",
                     !.previousFilename = "",
                     !.previousPath = <<>>,
                     !.isNavigatingBreadcrumbs = FALSE]

\* Escape, or a click outside the picker.
HideFilePicker ==
    /\ appState' = Hidden(appState)
    /\ pickerOpen' = FALSE
    /\ beforeNavigation' = IF beforeNavigation.navigating
                           THEN [beforeNavigation EXCEPT !.navigating = FALSE]
                           ELSE NoNavigation
    /\ op' = "hideFilePicker"
    /\ call' = NoCall
    /\ UNCHANGED <<beforePicker, doc, options, anchorVars, storeVars, versionVars, saveVars>>

\* A click on a file of the picker: the file becomes the current one, the
\* restoration state is cleared, and the picker is hidden.
\* As FileSelected, the picker hidden before the file is set.
FileSelectedAfterHiding(s, h) ==
    [Hidden(s) EXCEPT !.currentFileHandle = h,
                      !.currentFilename = FilenameOf(h),
                      !.previousFileHandle = "null",
                      !.previousFilename = "",
                      !.previousPath = <<>>,
                      !.isNavigatingBreadcrumbs = FALSE]

\* openFileFromPicker(h): the file set, the restoration state cleared,
\* then hideFilePicker.
FileSelected(s, h) ==
    Hidden([s EXCEPT !.currentFileHandle = h,
                     !.currentFilename = FilenameOf(h),
                     !.previousFileHandle = "null",
                     !.previousFilename = "",
                     !.previousPath = <<>>,
                     !.isNavigatingBreadcrumbs = FALSE])

OpenFileFromPicker ==
    /\ pickerOpen
    /\ \E h \in FileHandles :
          /\ appState' = FileSelected(appState, h)
          /\ call' = [NoCall EXCEPT !.file = h]
    /\ pickerOpen' = FALSE
    /\ beforeNavigation' = IF beforeNavigation.navigating
                           THEN [beforeNavigation EXCEPT !.navigating = FALSE]
                           ELSE NoNavigation
    /\ op' = "openFileFromPicker"
    /\ UNCHANGED <<beforePicker, doc, options, anchorVars, storeVars, versionVars, saveVars>>

NavNext ==
    \/ NavigateToPathIndex
    \/ ShowFilePicker
    \/ HideFilePicker
    \/ OpenFileFromPicker

NavSpec == NavInit /\ [][NavNext]_vars

(***************************************************************************)
(* The version banner.  banner is the element createVersionBanner made:    *)
(* its 'hidden' class and the type of its content.  versionBannerDismissed *)
(* and hasSeenWelcome (localStorage) are the module's and the storage's    *)
(* flags.  A version check runs up to its fetch in one step and from the   *)
(* response on in another; checks counts the checks started (up to         *)
(* MaxChecks) and those whose fetch is in flight, and records what the     *)
(* last response was, whether showWelcomeMessage was called, and whether   *)
(* the user has dismissed the banner since it was last put up             *)
(* (dismissed).                                                            *)
(***************************************************************************)
MaxChecks == 3

\* __APP_VERSION__ and what /version.json may answer: a rejected fetch, a
\* response that is not ok, or a version.
CurrentVersion == "1.0.0"
DeployedVersions == {"1.0.0", "2.0.0"}
Responses == {"rejected", "not ok"} \cup DeployedVersions

VersionInit ==
    /\ banner = NoBanner
    /\ versionBannerDismissed = FALSE
    /\ hasSeenWelcome \in BOOLEAN
    /\ checks = NoChecks
    /\ doc = <<>>
    /\ op = "initVersionManager"
    /\ options = DefaultOptions
    /\ AnchorIdle
    /\ StoreIdle
    /\ NavIdle
    /\ SaveIdle

\* checkForNewVersion from the response on.
HasNewVersion(response) ==
    /\ response \in DeployedVersions
    /\ CurrentVersion # response

\* showVersionBanner, after updateBannerContent(type).
Shown(type) == [hidden |-> FALSE, content |-> type]

\* performVersionCheck up to the fetch of checkForNewVersion: a dismissed
\* banner ends the check at once, with no new version.
PerformVersionCheck ==
    /\ checks.started < MaxChecks
    /\ checks' = [checks EXCEPT !.started = @ + 1,
                                !.inFlight = IF versionBannerDismissed THEN @ ELSE @ + 1]
    /\ op' = "performVersionCheck"
    /\ UNCHANGED <<banner, versionBannerDismissed, hasSeenWelcome>>
    /\ UNCHANGED <<doc, options, anchorVars, storeVars, navVars, saveVars>>

\* The rest of performVersionCheck, when the fetch is answered: a new
\* version puts the banner up, which also clears versionBannerDismissed.
FetchAnswered ==
    /\ checks.inFlight > 0
    /\ \E response \in Responses :
          /\ IF HasNewVersion(response)
             THEN /\ banner' = Shown("update")
                  /\ versionBannerDismissed' = FALSE
                  /\ checks' = [checks EXCEPT !.inFlight = @ - 1, !.found = response,
                                              !.dismissed = FALSE]
             ELSE /\ checks' = [checks EXCEPT !.inFlight = @ - 1, !.found = response]
                  /\ UNCHANGED <<banner, versionBannerDismissed>>
    /\ op' = "fetchAnswered"
    /\ UNCHANGED hasSeenWelcome
    /\ UNCHANGED <<doc, options, anchorVars, storeVars, navVars, saveVars>>

\* showWelcomeMessage, called once: a first-time user gets the welcome.
ShowWelcomeMessage ==
    /\ ~checks.welcomed
    /\ IF ~hasSeenWelcome
       THEN /\ banner' = Shown("welcome")
            /\ versionBannerDismissed' = FALSE
            /\ checks' = [checks EXCEPT !.welcomed = TRUE, !.dismissed = FALSE]
       ELSE /\ checks' = [checks EXCEPT !.welcomed = TRUE]
            /\ UNCHANGED <<banner, versionBannerDismissed>>
    /\ op' = "showWelcomeMessage"
    /\ UNCHANGED hasSeenWelcome
    /\ UNCHANGED <<doc, options, anchorVars, storeVars, navVars, saveVars>>

\* A click on the dismiss button of the banner shown: hideVersionBanner,
\* after the welcome is noted as seen.
DismissClick ==
    /\ ~banner.hidden
    /\ hasSeenWelcome' = (hasSeenWelcome \/ banner.content = "welcome")
    /\ banner' = [banner EXCEPT !.hidden = TRUE]
    /\ versionBannerDismissed' = TRUE
    /\ checks' = [checks EXCEPT !.dismissed = TRUE]
    /\ op' = "dismiss"
    /\ UNCHANGED <<doc, options, anchorVars, storeVars, navVars, saveVars>>

VersionNext ==
    \/ PerformVersionCheck
    \/ FetchAnswered
    \/ ShowWelcomeMessage
    \/ DismissClick

VersionSpec == VersionInit /\ [][VersionNext]_vars

(***************************************************************************)
(* Saving comments to the session file.  comments is the list in memory    *)
(* and sessionFile the comments of the file on disk; a comment is in the   *)
(* file from its first reply on.  handlers are the handlers running:       *)
(* each runs to its first await in one step (the change in memory), from   *)
(* the session file loaded to the call of saveSessionFile in another (the  *)
(* change of the copy loaded), and ends when the file is written.  A       *)
(* handler holds the comment object it found, which is the one in memory:  *)
(* what other handlers push to it shows in it.  The file written is the    *)
(* data as it was when saveSessionFile was called.                         *)
(***************************************************************************)
MaxHandlers == 2

\* A comment of the session file, with its first message.
FirstMessage ==
    [userId |-> OtherUser, text |-> "first", timestamp |-> 0, userName |-> OtherUser]
SavedComment(i) == [StoredComment(i, FoundAnchor) EXCEPT !.thread = <<FirstMessage>>]

\* A comment added since, not saved until its first reply.
NewComment(i) == StoredComment(i, FoundAnchor)

NoHandler ==
    [pc |-> "idle", kind |-> "none", commentId |-> 0, isFirstMessage |-> FALSE,
     comment |-> NewComment(0), sessionData |-> <<>>]

InSession(cs) == SelectSeq(cs, LAMBDA c : c.thread # <<>>)

SaveInit ==
    /\ doc = StoreDoc
    /\ \E n \in 1..MaxComments :
          comments \in {[i \in 1..n |-> IF i \in saved THEN SavedComment(i) ELSE NewComment(i)] :
                           saved \in SUBSET (1..n)}
    /\ sessionFile = InSession(comments)
    /\ handlers = [h \in 1..MaxHandlers |-> NoHandler]
    /\ clock = 0
    /\ results = NoResults
    /\ passes = NoPasses
    /\ op = "loaded"
    /\ options = DefaultOptions
    /\ AnchorIdle
    /\ NavIdle
    /\ VersionIdle

\* addCommentToSession(sessionData, comment)
AddCommentToSession(sessionData, comment) == Append(sessionData, comment)

\* updateCommentInSession(sessionData, commentId, updates)
UpdateCommentInSession(sessionData, commentId, updates) ==
    [i \in 1..Len(sessionData) |->
        IF sessionData[i].id = commentId
        THEN [f \in DOMAIN sessionData[i] |->
                 IF f \in DOMAIN updates THEN updates[f] ELSE sessionData[i][f]]
        ELSE sessionData[i]]

\* deleteCommentFromSession(sessionData, commentId)
DeleteCommentFromSession(sessionData, commentId) == DeleteComment(sessionData, commentId)

\* The handlers after one of them has changed the comment object in
\* memory: those that hold the object, and have yet to use it, see it.
Sharing(hs, c) ==
    [g \in DOMAIN hs |->
        IF hs[g].pc = "loading" /\ hs[g].commentId = c.id
        THEN [hs[g] EXCEPT !.comment = c]
        ELSE hs[g]]

Free(h) == handlers[h].pc = "idle"

\* handleReply up to loadSessionFile.
BeginReply ==
    \E h \in DOMAIN handlers :
        /\ Free(h)
        /\ clock < MaxClock
        /\ \E commentId \in CommentIds :
              LET i == IndexOfComment(comments, commentId)
                  reply == [userId |-> CurrentUser, text |-> "reply",
                            timestamp |-> clock + 1, userName |-> CurrentUser]
                  comment == Reply(comments[i], reply)
              IN  /\ comments' = [comments EXCEPT ![i] = comment]
                  /\ handlers' = [Sharing(handlers, comment) EXCEPT ![h] =
                         [pc |-> "loading", kind |-> "reply", commentId |-> commentId,
                          isFirstMessage |-> (Len(comment.thread) = 1),
                          comment |-> comment, sessionData |-> <<>>]]
        /\ clock' = clock + 1
        /\ op' = "handleReply"
        /\ UNCHANGED <<doc, options, results, passes, sessionFile>>
        /\ UNCHANGED <<anchorVars, navVars, versionVars>>

\* handleResolve up to loadSessionFile.
BeginResolve ==
    \E h \in DOMAIN handlers :
        /\ Free(h)
        /\ clock < MaxClock
        /\ \E commentId \in CommentIds :
              LET i == IndexOfComment(comments, commentId)
                  comment == Resolve(comments[i])
              IN  /\ comments' = [comments EXCEPT ![i] = comment]
                  /\ handlers' = [Sharing(handlers, comment) EXCEPT ![h] =
                         [pc |-> "loading", kind |-> "resolve", commentId |-> commentId,
                          isFirstMessage |-> FALSE,
                          comment |-> comment, sessionData |-> <<>>]]
        /\ clock' = clock + 1
        /\ op' = "handleResolve"
        /\ UNCHANGED <<doc, options, results, passes, sessionFile>>
        /\ UNCHANGED <<anchorVars, navVars, versionVars>>

\* handleDelete up to loadSessionFile.
BeginDelete ==
    \E h \in DOMAIN handlers :
        /\ Free(h)
        /\ clock < MaxClock
        /\ \E commentId \in CommentIds :
              /\ comments' = DeleteComment(comments, commentId)
              /\ handlers' = [handlers EXCEPT ![h] =
                     [pc |-> "loading", kind |-> "delete", commentId |-> commentId,
                      isFirstMessage |-> FALSE,
                      comment |-> comments[IndexOfComment(comments, commentId)],
                      sessionData |-> <<>>]]
        /\ clock' = clock + 1
        /\ op' = "handleDelete"
        /\ UNCHANGED <<doc, options, results, passes, sessionFile>>
        /\ UNCHANGED <<anchorVars, navVars, versionVars>>

\* What a handler makes of the session data it loaded.
Modified(handler, sessionData) ==
    CASE handler.kind = "reply" /\ handler.isFirstMessage ->
            AddCommentToSession(sessionData, handler.comment)
      [] handler.kind = "reply" /\ ~handler.isFirstMessage ->
            UpdateCommentInSession(sessionData, handler.commentId,
                                   [thread |-> handler.comment.thread])
      [] handler.kind = "resolve" ->
            UpdateCommentInSession(sessionData, handler.commentId, [resolved |-> TRUE])
      [] handler.kind = "delete" ->
            DeleteCommentFromSession(sessionData, handler.commentId)

\* loadSessionFile answers: the handler changes its copy and calls
\* saveSessionFile with it.
SessionLoaded ==
    \E h \in DOMAIN handlers :
        /\ handlers[h].pc = "loading"
        /\ handlers' = [handlers EXCEPT ![h].pc = "saving",
                                        ![h].sessionData = Modified(handlers[h], sessionFile)]
        /\ op' = "loadSessionFile"
        /\ UNCHANGED <<doc, options, comments, clock, results, passes, sessionFile>>
        /\ UNCHANGED <<anchorVars, navVars, versionVars>>

\* saveSessionFile writes the file, and the handler ends.
SessionSaved ==
    \E h \in DOMAIN handlers :
        /\ handlers[h].pc = "saving"
        /\ sessionFile' = handlers[h].sessionData
        /\ handlers' = [handlers EXCEPT ![h] = NoHandler]
        /\ op' = "saveSessionFile"
        /\ UNCHANGED <<doc, options, comments, clock, results, passes>>
        /\ UNCHANGED <<anchorVars, navVars, versionVars>>

SaveNext ==
    \/ BeginReply
    \/ BeginResolve
    \/ BeginDelete
    \/ SessionLoaded
    \/ SessionSaved

SaveSpec == SaveInit /\ [][SaveNext]_vars

(***************************************************************************)
(* Properties.                                                             *)
(***************************************************************************)
Selected == [kind |-> "pos", from |-> sel.from, to |-> sel.to]
Snippet(a) == a.prefix \o a.exact \o a.suffix
Occurrences(text, s) == {i \in 0..Len(text) : OccursAt(text, s, i)}

\* C1 (as stated), on the selections a comment is created from (the
\* toolbar offers no comment on an empty selection): after createAnchor on
\* a selection, findAnchorPosition on the unmodified document returns
\* exactly the selection.
C1_RoundTripAnySelection ==
    (op = "findAnchorPosition" /\ sel # NoSelection /\ sel.from < sel.to)
        => position = Selected

\* No occurrence of the selected text that starts before the selection
\* reaches into it.
C1_NoEarlierOverlap ==
    \A g \in Occurrences(doc, anchor.exact) : g < sel.from => g + Len(anchor.exact) <= sel.from

\* prefix + exact + suffix of the anchor does not occur in the document
\* before its occurrence at the selection.
C1_NoEarlierSnippet ==
    \A g \in Occurrences(doc, Snippet(anchor)) : g + Len(anchor.prefix) >= sel.from

\* C1 (amended): after createAnchor on a non-empty selection from < to,
\* findAnchorPosition on the unmodified document returns exactly the
\* selection, provided no earlier occurrence of the selected text overlaps
\* the selection and the anchor's snippet prefix + exact + suffix does not
\* occur earlier in the document.
C1_RoundTrip ==
    (/\ op = "findAnchorPosition"
     /\ sel # NoSelection
     /\ sel.from < sel.to
     /\ C1_NoEarlierOverlap
     /\ C1_NoEarlierSnippet) => position = Selected

\* C1 witness: a round trip decided by the context scores, the selected
\* text occurring before the selection as well.
C1_Witness ==
    /\ op = "findAnchorPosition"
    /\ sel # NoSelection
    /\ sel.from < sel.to
    /\ C1_NoEarlierOverlap
    /\ C1_NoEarlierSnippet
    /\ \E g \in Occurrences(doc, anchor.exact) : g < sel.from
    /\ position = Selected

\* C2: when anchor.exact occurs nowhere in doc, and whenever doc is empty,
\* findAnchorPosition returns null and no position.
C2_OrphanCorrectness ==
    (/\ op = "findAnchorPosition"
     /\ (doc = <<>> \/ Occurrences(doc, anchor.exact) = {})) => position = NullPosition

\* C2 witness: a non-empty document without the anchor's non-empty text.
C2_Witness ==
    /\ op = "findAnchorPosition"
    /\ doc # <<>>
    /\ anchor.exact # <<>>
    /\ Occurrences(doc, anchor.exact) = {}
    /\ position = NullPosition

\* C3: for an anchor whose exact is the empty string, findAnchorPosition
\* returns null, whatever the document.
C3_EmptyExactOrphaned ==
    (op = "findAnchorPosition" /\ anchor.exact = <<>>) => position = NullPosition

\* The scores as the specification words them, in half points, of a
\* candidate c of the anchor in the document.
C4_SuffixScore(c) ==
    IF OccursAt(doc, anchor.suffix, c.to) THEN 200
    ELSE 2 * Cardinality({k \in 1..Len(anchor.suffix) :
                 \A j \in 1..k : c.to + j <= Len(doc) /\ doc[c.to + j] = anchor.suffix[j]})

C4_PrefixScore(c) ==
    IF OccursAt(doc, anchor.prefix, c.from - Len(anchor.prefix)) THEN 100
    ELSE Cardinality({k \in 1..Len(anchor.prefix) :
             \A j \in 1..k : /\ c.from - j >= 0
                             /\ doc[c.from - j + 1] = anchor.prefix[Len(anchor.prefix) - j + 1]})

C4_Total(c) == C4_SuffixScore(c) + C4_PrefixScore(c)

C5_TieBreakLowestFrom ==
    (/\ op = "findAnchorPosition"
     /\ anchor.exact # <<>>
     /\ position.kind = "pos")
    => LET cands == Candidates(doc, anchor)
       IN  \A j \in 1..Len(cands) :
              C4_Total(cands[j]) = C4_Total(position) => position.from <= cands[j].from

\* C5 witness: a later candidate ties with the returned one.
C5_Witness ==
    /\ op = "findAnchorPosition"
    /\ anchor.exact # <<>>
    /\ position.kind = "pos"
    /\ \E j \in 1..Len(Candidates(doc, anchor)) :
          /\ Candidates(doc, anchor)[j].from > position.from
          /\ C4_Total(Candidates(doc, anchor)[j]) = C4_Total(position)

\* C6: for an anchor with a suffix of 1..32 characters and a prefix of at
\* most 32, a candidate followed by exactly the suffix has a total at least
\* that of any candidate that is not.
C6_ScoringMonotonicity ==
    (/\ op = "findAnchorPosition"
     /\ doc # <<>>
     /\ anchor.exact # <<>>
     /\ Len(anchor.suffix) >= 1
     /\ Len(anchor.suffix) <= ContextLength
     /\ Len(anchor.prefix) <= ContextLength)
    => LET cands == Candidates(doc, anchor)
       IN  \A i, j \in 1..Len(cands) :
              (/\ OccursAt(doc, anchor.suffix, cands[i].to)
               /\ ~OccursAt(doc, anchor.suffix, cands[j].to))
              => TotalScore(doc, cands[i], anchor) >= TotalScore(doc, cands[j], anchor)

\* C6 witness: a candidate with the exact suffix and no prefix character
\* against one with the exact prefix and all but one suffix character.
C6_Witness ==
    /\ op = "findAnchorPosition"
    /\ anchor.exact # <<>>
    /\ Len(anchor.suffix) = ContextLength
    /\ \E i, j \in 1..Len(Candidates(doc, anchor)) :
          LET ci == Candidates(doc, anchor)[i]
              cj == Candidates(doc, anchor)[j]
          IN  /\ OccursAt(doc, anchor.suffix, ci.to)
              /\ C4_PrefixScore(ci) = 0
              /\ C4_PrefixScore(cj) = 100
              /\ C4_SuffixScore(cj) = 2 * (ContextLength - 1)

\* C7: when the (non-empty) anchor.exact occurs at exactly one offset of
\* doc, findAnchorPosition returns that occurrence, whatever the anchor's
\* prefix and suffix are.
C7_SingleOccurrence ==
    (/\ op = "findAnchorPosition"
     /\ anchor.exact # <<>>
     /\ Cardinality(Occurrences(doc, anchor.exact)) = 1)
    => \E i \in Occurrences(doc, anchor.exact) :
          position = [kind |-> "pos", from |-> i, to |-> i + Len(anchor.exact)]

\* C7 witness: a single occurrence returned although neither the stored
\* prefix nor the stored suffix agrees with the document in any character.
C7_Witness ==
    /\ op = "findAnchorPosition"
    /\ anchor.exact # <<>>
    /\ Cardinality(Occurrences(doc, anchor.exact)) = 1
    /\ anchor.prefix # <<>>
    /\ anchor.suffix # <<>>
    /\ position.kind = "pos"
    /\ C4_Total(position) = 0

\* C8: the candidate list of a (non-empty) anchor.exact holds occurrences
\* of the literal text only, in ascending order and without overlap, and
\* every occurrence of the text is a candidate or overlapped by a candidate
\* starting before it (the left-to-right non-overlapping occurrences); in
\* Scenario E the candidates are the two literal substrings and "aXb(c)"
\* has none.
C8_LiteralCandidates ==
    /\ (op = "findAnchorPosition" /\ doc # <<>> /\ anchor.exact # <<>>)
       => LET cands == Candidates(doc, anchor)
          IN  /\ \A k \in 1..Len(cands) :
                    /\ OccursAt(doc, anchor.exact, cands[k].from)
                    /\ cands[k].to = cands[k].from + Len(anchor.exact)
              /\ \A k \in 1..(Len(cands) - 1) : cands[k].to <= cands[k + 1].from
              /\ \A i \in Occurrences(doc, anchor.exact) :
                    \E k \in 1..Len(cands) : cands[k].from <= i /\ i < cands[k].to
    /\ (op = "findAnchorPosition" /\ doc = ScenarioEDoc /\ anchor = ScenarioEAnchor)
       => Candidates(doc, anchor) = <<[from |-> 0, to |-> 6], [from |-> 11, to |-> 17]>>
    /\ (op = "findAnchorPosition" /\ doc = ScenarioEOtherDoc /\ anchor = ScenarioEAnchor)
       => Candidates(doc, anchor) = <<>> /\ position = NullPosition

\* C8 witness: Scenario E resolved to its first literal occurrence.
C8_Witness ==
    /\ op = "findAnchorPosition"
    /\ doc = ScenarioEDoc
    /\ anchor = ScenarioEAnchor
    /\ Len(Candidates(doc, anchor)) = 2
    /\ position = [kind |-> "pos", from |-> 0, to |-> 6]

\* C9: createAnchor(doc, from, to) returns exact of to - from characters,
\* prefix of min(32, from) and suffix of min(32, len(doc) - to), and
\* prefix + exact + suffix is the slice of doc that starts at
\* from - len(prefix); createAnchor("hello world", 0, 5) is
\* {"", "hello", " world"}.
C9_CreateAnchor ==
    /\ op = "createAnchor"
       => /\ 0 <= sel.from /\ sel.from <= sel.to /\ sel.to <= Len(doc)
          /\ Len(anchor.exact) = sel.to - sel.from
          /\ Len(anchor.prefix) = Min(32, sel.from)
          /\ Len(anchor.suffix) = Min(32, Len(doc) - sel.to)
          /\ OccursAt(doc, Snippet(anchor), sel.from - Len(anchor.prefix))
    /\ (op = "createAnchor" /\ doc = ScenarioCDoc /\ sel = [from |-> 0, to |-> 5])
       => anchor = ScenarioCAnchor

\* C9 witness: an anchor with more than 32 characters on either side of
\* its selection.
C9_Witness ==
    /\ op = "createAnchor"
    /\ sel.from > 32
    /\ Len(doc) - sel.to > 32
    /\ sel.from < sel.to
    /\ Len(anchor.prefix) = 32
    /\ Len(anchor.suffix) = 32

\* C10: for a comment with a (non-empty) anchor.exact, validateComment
\* returns status exact and the resolver's position when findAnchorPosition
\* returns one; otherwise status snapped and the snapper's position when
\* allowSnap is true and snapToNearestWord returns one; otherwise status
\* orphaned and position null.  The status is orphaned exactly when the
\* position is null.
C10_ValidateComment ==
    (op = "validateComment" /\ anchor.exact # <<>>)
    => LET found == FindAnchorPosition(doc, anchor)
           snapped == SnapToNearestWord(doc, anchor.prefix, anchor.suffix)
       IN  /\ validation.id = CommentId
           /\ found.kind = "pos"
              => validation.status = "exact" /\ validation.position = found
           /\ (found.kind # "pos" /\ options.allowSnap /\ snapped.kind = "pos")
              => validation.status = "snapped" /\ validation.position = snapped
           /\ (found.kind # "pos" /\ ~(options.allowSnap /\ snapped.kind = "pos"))
              => validation.status = "orphaned" /\ validation.position = NullPosition
           /\ validation.status = "orphaned" <=> validation.position = NullPosition

\* C10 witness: a comment whose text is gone, snapped to a word after its
\* prefix.
C10_Witness ==
    /\ op = "validateComment"
    /\ anchor.exact # <<>>
    /\ options.allowSnap
    /\ FindAnchorPosition(doc, anchor) = NullPosition
    /\ validation.status = "snapped"
    /\ validation.position = SnapToNearestWord(doc, anchor.prefix, anchor.suffix)

\* Every comment of the store has a well-formed anchor (a non-empty exact).
WellFormedAnchors == \A i \in 1..Len(comments) : comments[i].anchor.exact # <<>>

\* v is an element of the array list.
InList(list, v) == \E k \in 1..Len(list) : list[k] = v

\* C11: validateComments (over comments with well-formed anchors) puts the
\* validateComment result of every comment in exactly one of valid, snapped
\* and orphaned, the one of its status, and nothing else in them; total =
\* len(comments) = validCount + snappedCount + orphanedCount, and each count
\* is the length of its list.
C11_Partition ==
    (op = "validateComments" /\ WellFormedAnchors)
    => /\ results.kind = "returned"
       /\ \A i \in 1..Len(comments) :
             LET v == ValidateComment(doc, comments[i], options)
             IN  /\ InList(results.valid, v) <=> v.status = "exact"
                 /\ InList(results.snapped, v) <=> v.status = "snapped"
                 /\ InList(results.orphaned, v) <=> v.status = "orphaned"
       /\ results.total = Len(comments)
       /\ results.total = results.validCount + results.snappedCount + results.orphanedCount
       /\ results.validCount = Len(results.valid)
       /\ results.snappedCount = Len(results.snapped)
       /\ results.orphanedCount = Len(results.orphaned)

\* C11 witness: a pass over two comments, one snapped and one orphaned.
C11_Witness ==
    /\ op = "validateComments"
    /\ WellFormedAnchors
    /\ results.kind = "returned"
    /\ results.total = 2
    /\ results.snappedCount = 1
    /\ results.orphanedCount = 1

C13_PassReturns ==
    op = "validateComments"
    => /\ results.kind = "returned"
       /\ results.total = Len(comments)
       /\ Len(results.valid) + Len(results.snapped) + Len(results.orphaned) = Len(comments)

\* C17: getOrphanedCommentIds (over comments with well-formed anchors)
\* returns the ids of the comments for which findAnchorPosition returns
\* null, in the order of the comments, whether or not snapToNearestWord
\* finds a word for them.
C17_OrphanedIds ==
    (op = "getOrphanedCommentIds" /\ WellFormedAnchors)
    => LET gone == SelectSeq(comments,
                       LAMBDA c : FindAnchorPosition(doc, c.anchor) = NullPosition)
       IN  /\ results.kind = "returned"
           /\ results.ids = [i \in 1..Len(gone) |-> gone[i].id]

\* C17 witness: two comments reported in their order, the second of them
\* one that snapToNearestWord finds a word for.
C17_Witness ==
    /\ op = "getOrphanedCommentIds"
    /\ Len(comments) = 2
    /\ WellFormedAnchors
    /\ results.ids = <<comments[1].id, comments[2].id>>
    /\ SnapToNearestWord(doc, comments[2].anchor.prefix, comments[2].anchor.suffix).kind = "pos"

CommentOf(cs, commentId) == cs[IndexOfComment(cs, commentId)]

IsPrefix(s, t) == Len(s) <= Len(t) /\ SubSeq(t, 1, Len(s)) = s

\* C19: in every step of the store (a handler or a pass), a comment that is
\* in the store before and after it keeps its id, anchor, fileRelativePath,
\* userId and timestamp, and its thread is as before or as before with one
\* reply appended; nothing but thread and resolved changes in it.
C19_CommentImmutability ==
    [][\A commentId \in CommentIds :
          (\E i \in 1..Len(comments') : comments'[i].id = commentId)
          => LET before == CommentOf(comments, commentId)
                 after == CommentOf(comments', commentId)
             IN  /\ after = [before EXCEPT !.thread = after.thread,
                                           !.resolved = after.resolved]
                 /\ IsPrefix(before.thread, after.thread)
                 /\ Len(after.thread) <= Len(before.thread) + 1]_vars

\* C19 witness: a stored comment after two replies, the replies in the
\* order they were made in.
C19_Witness ==
    /\ op = "handleReply"
    /\ \E i \in 1..Len(comments) :
          /\ comments[i].id < 0
          /\ comments[i].anchor \in {FoundAnchor, GoneAnchor}
          /\ Len(comments[i].thread) = 2
          /\ comments[i].thread[1].timestamp < comments[i].thread[2].timestamp

\* The window of the snapper as the specification words it: the up to 100
\* characters after the last occurrence of the anchor's prefix (which
\* must occur).
LastPrefix == CHOOSE i \in Occurrences(doc, anchor.prefix) :
                 \A j \in Occurrences(doc, anchor.prefix) : j <= i
WindowStart == LastPrefix + Len(anchor.prefix)
Window == SubSeq(doc, WindowStart + 1, Min(WindowStart + 100, Len(doc)))

\* The maximal runs of word characters (letters, digits, underscore) in
\* text, as offsets [from, to).
MaximalWordRuns(text) ==
    {r \in [from : 0..Len(text), to : 0..Len(text)] :
        /\ r.from < r.to
        /\ \A k \in (r.from + 1)..r.to : text[k] \in WordChars
        /\ r.from = 0 \/ text[r.from] \notin WordChars
        /\ r.to = Len(text) \/ text[r.to + 1] \notin WordChars}

\* The span in the document of the run r of the window.
InDocument(r) == [kind |-> "pos", from |-> WindowStart + r.from, to |-> WindowStart + r.to]

\* The first maximal run of the window, or null.
FirstRunOfWindow ==
    LET runs == MaximalWordRuns(Window)
    IN  IF runs = {} THEN NullPosition
        ELSE InDocument(CHOOSE r \in runs : \A q \in runs : r.from <= q.from)

\* The offset in the window of the first match of the anchor's suffix, -1
\* when there is none, and the part of the window before it.
SuffixInWindow ==
    IF Occurrences(Window, anchor.suffix) = {} THEN -1
    ELSE CHOOSE i \in Occurrences(Window, anchor.suffix) :
            \A j \in Occurrences(Window, anchor.suffix) : i <= j
BeforeSuffix == SubSeq(Window, 1, SuffixInWindow)

\* C14: snapToNearestWord returns null when the prefix does not occur in
\* the document, whatever the suffix; otherwise its result lies in, and
\* depends on nothing but, the up to 100 characters that follow the last
\* occurrence of the prefix: it is the result for the document cut down to
\* the prefix and that window.
C14_LastPrefixWindow ==
    op = "snapToNearestWord"
    => IF Occurrences(doc, anchor.prefix) = {} THEN position = NullPosition
       ELSE LET inWindow == SnapToNearestWord(anchor.prefix \o Window,
                                              anchor.prefix, anchor.suffix)
            IN  /\ position.kind = inWindow.kind
                /\ position.kind = "pos"
                   => /\ position.from = LastPrefix + inWindow.from
                      /\ position.to = LastPrefix + inWindow.to
                      /\ WindowStart <= position.from
                      /\ position.from < position.to
                      /\ position.to <= WindowStart + 100
                      /\ position.to <= Len(doc)

\* C14 witness: a prefix that occurs twice, with a word after its first
\* occurrence, and the word after its last occurrence returned.
C14_Witness ==
    /\ op = "snapToNearestWord"
    /\ Cardinality(Occurrences(doc, anchor.prefix)) = 2
    /\ Len(anchor.prefix) > 0
    /\ position.kind = "pos"
    /\ position.from >= WindowStart
    /\ \E i \in Occurrences(doc, anchor.prefix) :
          i < LastPrefix /\ doc[i + Len(anchor.prefix) + 1] \in WordChars

\* C15: when the suffix has more than 5 characters and is found in the
\* window, with a run of word characters before it, snapToNearestWord
\* returns the span of the last maximal run of word characters in the part
\* of the window before the suffix match.
C15_LastRunBeforeSuffix ==
    (/\ op = "snapToNearestWord"
     /\ Occurrences(doc, anchor.prefix) # {}
     /\ Len(anchor.suffix) > 5
     /\ SuffixInWindow # -1
     /\ MaximalWordRuns(BeforeSuffix) # {})
    => LET runs == MaximalWordRuns(BeforeSuffix)
       IN  position = InDocument(CHOOSE r \in runs : \A q \in runs : q.from <= r.from)

\* C16: when the suffix has 5 or fewer characters, or is not found in the
\* window, or is found with no run of word characters before it,
\* snapToNearestWord returns the span of the first maximal run of word
\* characters in the window, and null if the window has none; in Scenario D
\* findAnchorPosition returns null and snapToNearestWord {from: 9, to: 14}.
C16_FirstRunOfWindow ==
    /\ (/\ op = "snapToNearestWord"
        /\ Occurrences(doc, anchor.prefix) # {}
        /\ \/ Len(anchor.suffix) <= 5
           \/ SuffixInWindow = -1
           \/ MaximalWordRuns(BeforeSuffix) = {})
       => position = FirstRunOfWindow
    /\ (doc = ScenarioDDoc /\ anchor = ScenarioDAnchor)
       => /\ op = "findAnchorPosition" => position = NullPosition
          /\ op = "snapToNearestWord" => position = [kind |-> "pos", from |-> 9, to |-> 14]

\* C16 witness: Scenario D snapped to "world", its suffix found at the
\* start of the window with nothing before it.
C16_Witness ==
    /\ op = "snapToNearestWord"
    /\ doc = ScenarioDDoc
    /\ anchor = ScenarioDAnchor
    /\ Len(anchor.suffix) > 5
    /\ SuffixInWindow = 0
    /\ position = [kind |-> "pos", from |-> 9, to |-> 14]

\* The file that closing the picker brings back after a navigation that
\* started in state s: the file open in s, or, when the picker was opened
\* by a click on the filename before the navigation, the file that click
\* saved and cleared.
FileToRestore(s) ==
    IF s.previousFileHandle # "null"
    THEN [handle |-> s.previousFileHandle, filename |-> s.previousFilename]
    ELSE [handle |-> s.currentFileHandle, filename |-> s.currentFilename]

\* C20 as stated: after one or more consecutive navigateToPathIndex calls
\* with valid indices, closing the picker without a selection restores
\* currentPath, currentFileHandle and currentFilename to their values
\* before the first navigation.
C20_RestoresStateBeforeFirstNavigation ==
    [][(op' = "hideFilePicker" /\ beforeNavigation.navigating)
       => /\ appState'.currentPath = beforeNavigation.state.currentPath
          /\ appState'.currentFileHandle = beforeNavigation.state.currentFileHandle
          /\ appState'.currentFilename = beforeNavigation.state.currentFilename]_vars

\* C20, amended: after one or more consecutive navigateToPathIndex calls
\* with valid indices, closing the picker without a selection restores
\* currentPath to its value before the first navigation, and
\* currentFileHandle and currentFilename to the file open before the first
\* navigation or, when the picker had been opened on that file before the
\* first navigation, to that file.
C20_RestoresPathAndSavedFile ==
    [][(op' = "hideFilePicker" /\ beforeNavigation.navigating)
       => /\ appState'.currentPath = beforeNavigation.state.currentPath
          /\ appState'.currentFileHandle = FileToRestore(beforeNavigation.state).handle
          /\ appState'.currentFilename = FileToRestore(beforeNavigation.state).filename]_vars

\* C20 witness: the picker closed after two navigations that began with
\* the picker hidden, a file open and a path of several segments, and the
\* file and the path back.
C20_Witness ==
    /\ op = "hideFilePicker"
    /\ ~pickerOpen
    /\ beforeNavigation.navigations = 2
    /\ beforeNavigation.state.previousFileHandle = "null"
    /\ beforeNavigation.state.currentFileHandle # "null"
    /\ Len(beforeNavigation.state.currentPath) > 1
    /\ appState.currentPath = beforeNavigation.state.currentPath
    /\ appState.currentFileHandle = beforeNavigation.state.currentFileHandle
    /\ appState.currentFilename = FilenameOf(appState.currentFileHandle)

\* C21: when the picker is opened by a click on the filename while a file
\* is open and is then closed without a selection, currentFileHandle and
\* currentFilename are those from before the picker opened and currentPath
\* is unchanged.
C21_DirectOpenCancelRestores ==
    [][(/\ op = "showFilePicker"
        /\ op' = "hideFilePicker"
        /\ beforePicker.currentFileHandle # "null")
       => /\ appState'.currentFileHandle = beforePicker.currentFileHandle
          /\ appState'.currentFilename = beforePicker.currentFilename
          /\ appState'.currentPath = beforePicker.currentPath]_vars

\* C27: after navigateToPathIndex(i) with 0 <= i < len(currentPath),
\* currentPath is the first i + 1 segments of the former path, the file is
\* cleared, isNavigatingBreadcrumbs is true and previousPath is the path
\* from before the first navigation since the picker was last closed; and
\* from a navigation on, while isNavigatingBreadcrumbs is true, currentPath
\* is a prefix of previousPath.
C27_AfterNavigation ==
    [][/\ (/\ op' = "navigateToPathIndex"
           /\ 0 <= call'.index
           /\ call'.index < Len(appState.currentPath))
          => /\ appState'.currentPath = SubSeq(appState.currentPath, 1, call'.index + 1)
             /\ appState'.currentFileHandle = "null"
             /\ appState'.currentFilename = ""
             /\ appState'.isNavigatingBreadcrumbs
             /\ appState'.previousPath = <<beforeNavigation'.state.currentPath>>
       /\ (beforeNavigation'.navigating /\ appState'.isNavigatingBreadcrumbs)
          => /\ appState'.previousPath # <<>>
             /\ IsPrefix(appState'.currentPath, appState'.previousPath[1])]_vars

\* C27 witness: a second navigation, to the root, of a path of MaxPathLen
\* segments that previousPath still holds.
C27_Witness ==
    /\ op = "navigateToPathIndex"
    /\ call.index = 0
    /\ beforeNavigation.navigating
    /\ beforeNavigation.navigations = 2
    /\ appState.isNavigatingBreadcrumbs
    /\ Len(appState.currentPath) = 1
    /\ appState.previousPath = <<PathOfLength(MaxPathLen)>>

\* C28: navigateToPathIndex with index < 0 or index >= len(currentPath)
\* leaves currentPath, currentFileHandle, currentFilename,
\* currentDirHandle, previousPath, previousFileHandle and
\* isNavigatingBreadcrumbs unchanged and calls none of saveFocusState,
\* saveTempChanges and showFilePicker.
C28_OutOfBoundsNoOp ==
    [][(/\ op' = "navigateToPathIndex"
        /\ call'.index < 0 \/ call'.index >= Len(appState.currentPath))
       => /\ appState'.currentPath = appState.currentPath
          /\ appState'.currentFileHandle = appState.currentFileHandle
          /\ appState'.currentFilename = appState.currentFilename
          /\ appState'.currentDirHandle = appState.currentDirHandle
          /\ appState'.previousPath = appState.previousPath
          /\ appState'.previousFileHandle = appState.previousFileHandle
          /\ appState'.isNavigatingBreadcrumbs = appState.isNavigatingBreadcrumbs
          /\ pickerOpen' = pickerOpen
          /\ call'.callbacks = {}]_vars

\* C28 witness: navigateToPathIndex called with the length of the path
\* while a file is open and the picker hidden, and nothing changed.
C28_Witness ==
    /\ op = "navigateToPathIndex"
    /\ call.index = Len(appState.currentPath)
    /\ call.index > 0
    /\ call.callbacks = {}
    /\ appState.currentFileHandle # "null"
    /\ ~appState.isNavigatingBreadcrumbs
    /\ ~pickerOpen

\* C29: a file selected in breadcrumb navigation mode stays the current
\* file, currentPath stays where the navigation cut it, previousFileHandle,
\* previousFilename and previousPath are cleared and
\* isNavigatingBreadcrumbs is false; a hideFilePicker after that changes
\* none of it.
C29_SelectionNotRestored ==
    [][/\ (op' = "openFileFromPicker" /\ appState.isNavigatingBreadcrumbs)
          => /\ appState'.currentFileHandle = call'.file
             /\ appState'.currentFilename = FilenameOf(call'.file)
             /\ appState'.currentPath = appState.currentPath
             /\ appState'.previousFileHandle = "null"
             /\ appState'.previousFilename = ""
             /\ appState'.previousPath = <<>>
             /\ ~appState'.isNavigatingBreadcrumbs
       /\ (op = "openFileFromPicker" /\ op' = "hideFilePicker")
          => appState' = appState]_vars

\* C29 witness: after a navigation that cut the path of a state with one
\* file open, the other file selected.
C29_Witness ==
    /\ op = "openFileFromPicker"
    /\ beforeNavigation.navigations > 0
    /\ beforeNavigation.state.currentFileHandle \in FileHandles \ {call.file}
    /\ Len(appState.currentPath) < Len(beforeNavigation.state.currentPath)
    /\ appState.currentFileHandle = call.file
    /\ appState.previousPath = <<>>
    /\ ~pickerOpen

\* C25: a position returned by snapToNearestWord is in document
\* coordinates, with searchStart <= from < to <= min(searchStart + 100,
\* len(doc)) for searchStart = lastIndexOf(prefix) + len(prefix), and the
\* text it spans is non-empty and made of word characters only.
C25_SnapWellFormed ==
    (op = "snapToNearestWord" /\ position.kind = "pos")
    => /\ Occurrences(doc, anchor.prefix) # {}
       /\ WindowStart <= position.from
       /\ position.from < position.to
       /\ position.to <= Min(WindowStart + 100, Len(doc))
       /\ \A k \in (position.from + 1)..position.to : doc[k] \in WordChars

\* C25 witness: a word that crosses the end of the window, returned cut
\* at the window's end.
C25_Witness ==
    /\ op = "snapToNearestWord"
    /\ position.kind = "pos"
    /\ position.to = WindowStart + 100
    /\ position.to < Len(doc)
    /\ doc[position.to + 1] \in WordChars

\* C30: for an anchor with an empty prefix snapToNearestWord returns null,
\* whatever the document and the suffix, and validateComment with
\* allowSnap = true gives such a comment the status exact or orphaned.
C30_EmptyPrefixNeverSnaps ==
    anchor.prefix = <<>>
    => /\ op = "snapToNearestWord" => position = NullPosition
       /\ (op = "validateComment" /\ options.allowSnap)
          => validation.status \in {"exact", "orphaned"}

\* C30 witness: a comment with an empty prefix, its text gone from a
\* document that has words and the anchor's suffix of more than 5
\* characters, validated with allowSnap = true as orphaned.
C30_Witness ==
    /\ op = "validateComment"
    /\ options.allowSnap
    /\ anchor.prefix = <<>>
    /\ Len(anchor.suffix) > 5
    /\ Occurrences(doc, anchor.suffix) # {}
    /\ \E k \in 1..Len(doc) : doc[k] \in WordChars
    /\ validation.status = "orphaned"

\* C24: a position returned by findAnchorPosition has
\* 0 <= from < to <= len(doc) and to - from = len(anchor.exact), and the
\* document's text from from to to is anchor.exact; and when a non-empty
\* anchor.exact occurs in a non-empty document, the result is a position.
C24_ResolverSoundness ==
    op = "findAnchorPosition"
    => /\ position.kind = "pos"
          => /\ 0 <= position.from
             /\ position.from < position.to
             /\ position.to <= Len(doc)
             /\ position.to - position.from = Len(anchor.exact)
             /\ SubSeq(doc, position.from + 1, position.to) = anchor.exact
       /\ (anchor.exact # <<>> /\ doc # <<>> /\ Occurrences(doc, anchor.exact) # {})
          => position.kind = "pos"

\* C24 witness: a text with a regex special character that occurs more
\* than once, resolved to one of its occurrences.
C24_Witness ==
    /\ op = "findAnchorPosition"
    /\ \E k \in 1..Len(anchor.exact) : anchor.exact[k] \in RegexSpecials
    /\ Cardinality(Occurrences(doc, anchor.exact)) > 1
    /\ position.kind = "pos"
    /\ position.from \in Occurrences(doc, anchor.exact)

\* C23 as stated: after an insertion or a deletion that lies outside the
\* commented span and its stored prefix and suffix, findAnchorPosition on
\* the edited document returns the span at its shifted offset (sel follows
\* the span through the edit).
C23_DurableUnderUnrelatedEdits ==
    (op = "findAnchorPosition" /\ sel.from < sel.to) => position = Selected

\* C23, amended: it returns the span at its shifted offset provided that,
\* in the edited document, no earlier occurrence of the commented text
\* overlaps the span and prefix + exact + suffix does not occur earlier.
C23_DurableWhenUnambiguous ==
    (/\ op = "findAnchorPosition"
     /\ sel.from < sel.to
     /\ C1_NoEarlierOverlap
     /\ C1_NoEarlierSnippet) => position = Selected

\* C23 witness: text deleted before the stored prefix of a span that has
\* the commented text also after it, and the span found two characters
\* to the left.
C23_Witness ==
    /\ op = "findAnchorPosition"
    /\ Len(anchor.prefix) = ContextLength
    /\ sel.from = Len(anchor.prefix)
    /\ sel.from < sel.to
    /\ Len(doc) = Len(PaddedDoc) - 2
    /\ Cardinality(Occurrences(doc, anchor.exact)) > 1
    /\ position = Selected

\* C22 (as stated): once the user has dismissed the version banner, no step
\* of a version check shows it again: neither a check started after the
\* click nor the answer to a fetch that was in flight at the click, whatever
\* version it finds.
C22_DismissedStaysHidden ==
    [][(checks.dismissed /\ op' \in {"performVersionCheck", "fetchAnswered"})
          => banner'.hidden]_vars

\* C26 (as stated): when the comment handlers have all finished, however
\* their loads, changes and saves were interleaved, the session file holds
\* the comments in memory that have a thread, each as it is in memory: the
\* effect of every operation is in the file.
C26_NoLostUpdate ==
    (handlers # <<>> /\ \A h \in DOMAIN handlers : Free(h))
        => {sessionFile[i] : i \in 1..Len(sessionFile)}
              = {comments[i] : i \in {j \in 1..Len(comments) : comments[j].thread # <<>>}}

====
